---- MODULE Spec2Model ----
(***************************************************************************)
(* Model of the AI-review response pipeline of burg-ai:                    *)
(*   - GeminiLLMService.generateEnhancedReview  (utils/schema-validation)  *)
(*   - EnhancedAIReviewService.generateEnhancedReview (enhanced-ai-review) *)
(*   - PRReviewQueue.performPRReview (models/review.ts), the job runner    *)
(*   - RepoConfigService.filterComments (repo-config)                      *)
(* JSON values are tagged records; texts are TLA+ strings, so that trim,   *)
(* length and emptiness are computed as the code computes them.            *)
(***************************************************************************)
EXTENDS Integers, Sequences, FiniteSets, TLC

(***************************************************************************)
(* Program constants                                                       *)
(***************************************************************************)
MAX_RETRIES == 8
RETRY_DELAY_MS == 3000
MAX_RATE_LIMIT_RETRIES == 5
RATE_LIMIT_BACKOFF_MS == 8000

(***************************************************************************)
(* Bounds of the model                                                     *)
(***************************************************************************)
\* number of backoff waits of one invocation that the wait log records
WaitLogLen == 3

(***************************************************************************)
(* Strings                                                                 *)
(***************************************************************************)
RECURSIVE Trim(_)
Trim(s) ==
  IF Len(s) = 0 THEN s
  ELSE IF SubSeq(s, 1, 1) = " " THEN Trim(SubSeq(s, 2, Len(s)))
  ELSE IF SubSeq(s, Len(s), Len(s)) = " " THEN Trim(SubSeq(s, 1, Len(s) - 1))
  ELSE s

Includes(s, w) ==
  \E i \in 1..(Len(s) - Len(w) + 1) : SubSeq(s, i, i + Len(w) - 1) = w

\* s.split(sep).pop(): the part after the last separator
RECURSIVE LastPart(_, _)
LastPart(s, sep) ==
  IF \E i \in 1..Len(s) : SubSeq(s, i, i) = sep
  THEN LET i == CHOOSE j \in 1..Len(s) : SubSeq(s, j, j) = sep
       IN LastPart(SubSeq(s, i + 1, Len(s)), sep)
  ELSE s

RECURSIVE Pow2(_)
Pow2(n) == IF n = 0 THEN 1 ELSE 2 * Pow2(n - 1)

Min(a, b) == IF a < b THEN a ELSE b
Max(a, b) == IF a > b THEN a ELSE b

(***************************************************************************)
(* JSON values as the parsers deliver them                                 *)
(***************************************************************************)
Str(s) == [t |-> "str", s |-> s]
Num(n) == [t |-> "num", n |-> n]
Arr(a) == [t |-> "arr", a |-> a]
Absent == [t |-> "absent"]
JNull == [t |-> "null"]

IsStr(v) == v.t = "str"
IsNum(v) == v.t = "num"
IsArr(v) == v.t = "arr"
IsObj(v) == v.t = "obj"

\* property access v[f]; undefined when missing
Prop(v, f) == IF IsObj(v) /\ f \in DOMAIN v THEN v[f] ELSE Absent
Keys(v) == DOMAIN v \ {"t"}

(***************************************************************************)
(* Lenient model schema (zod) of GeminiLLMService                          *)
(***************************************************************************)
LowerChar(c) ==
  CASE c = "A" -> "a" [] c = "B" -> "b" [] c = "C" -> "c" [] c = "D" -> "d"
    [] c = "E" -> "e" [] c = "F" -> "f" [] c = "G" -> "g" [] c = "H" -> "h"
    [] c = "I" -> "i" [] c = "J" -> "j" [] c = "K" -> "k" [] c = "L" -> "l"
    [] c = "M" -> "m" [] c = "N" -> "n" [] c = "O" -> "o" [] c = "P" -> "p"
    [] c = "Q" -> "q" [] c = "R" -> "r" [] c = "S" -> "s" [] c = "T" -> "t"
    [] c = "U" -> "u" [] c = "V" -> "v" [] c = "W" -> "w" [] c = "X" -> "x"
    [] c = "Y" -> "y" [] c = "Z" -> "z" [] OTHER -> c

RECURSIVE ToLowerCase(_)
ToLowerCase(s) ==
  IF Len(s) = 0 THEN s
  ELSE LowerChar(SubSeq(s, 1, 1)) \o ToLowerCase(SubSeq(s, 2, Len(s)))

\* z.preprocess of the severity field: anything is mapped into low/medium/high
SeverityPreprocess(val) ==
  IF ~IsStr(val) THEN "medium"
  ELSE IF val.s = "" THEN "medium"
  ELSE LET lowerVal == Trim(ToLowerCase(val.s)) IN
       IF lowerVal \in {"low", "medium", "high"} THEN lowerVal
       ELSE IF Includes(lowerVal, "critical") \/ Includes(lowerVal, "severe")
               \/ Includes(lowerVal, "security") THEN "high"
       ELSE IF Includes(lowerVal, "major") THEN "medium"
       ELSE IF Includes(lowerVal, "minor") \/ Includes(lowerVal, "low")
               \/ Includes(lowerVal, "style") THEN "low"
       ELSE "medium"

\* RawAIReviewSchema.safeParse(data).success
RawAIReviewSchemaOk(data) ==
  /\ IsObj(data)
  /\ IsStr(Prop(data, "summary"))
  /\ IsArr(Prop(data, "comments"))
  /\ \A i \in 1..Len(data.comments.a) :
       LET c == data.comments.a[i] IN
         /\ IsObj(c)
         /\ IsStr(Prop(c, "filePath"))
         /\ IsNum(Prop(c, "line"))
         /\ IsStr(Prop(c, "code"))

\* AIReviewSchema: the transform applied to data accepted by RawAIReviewSchema
AIReviewSchema(data) ==
  [summary |-> data.summary.s,
   comments |-> [i \in 1..Len(data.comments.a) |->
                   LET c == data.comments.a[i] IN
                     [filePath |-> c.filePath.s,
                      line |-> c.line.n,
                      suggestion |-> c.code.s,
                      severity |-> SeverityPreprocess(Prop(c, "severity"))]]]

(***************************************************************************)
(* Comment repair (GeminiLLMService)                                       *)
(***************************************************************************)
FileNameOf(filePath) ==
  LET last == LastPart(filePath, "/") IN IF last = "" THEN "file" ELSE last

generateFallbackMessage(filePath, severity) ==
  LET fileName == FileNameOf(filePath) IN
  CASE severity = "critical" ->
         "Critical issue detected in " \o fileName \o ". Manual review required for security, performance, or correctness concerns."
    [] severity = "major" ->
         "Major improvement opportunity identified in " \o fileName \o ". Consider refactoring for better maintainability or performance."
    [] severity = "minor" ->
         "Minor code quality improvement suggested for " \o fileName \o ". Consider following coding best practices."
    [] OTHER ->
         "Code review suggestion for " \o fileName \o ". Manual inspection recommended."

MapSeverity(sev) ==
  CASE sev = "high" -> "critical"
    [] sev = "medium" -> "major"
    [] sev = "low" -> "minor"
    [] OTHER -> "minor"

validateAndRepairComment(comment) ==
  LET filePath == IF comment.filePath = "" THEN "unknown" ELSE comment.filePath
      line == IF comment.line > 0 THEN comment.line ELSE 1
      severity == MapSeverity(comment.severity)
      message0 == comment.suggestion
      message == IF Len(Trim(message0)) = 0
                 THEN generateFallbackMessage(filePath, severity)
                 ELSE message0
      suggestion == IF comment.suggestion # "" THEN comment.suggestion ELSE message
  IN [filePath |-> filePath,
      line |-> line,
      severity |-> severity,
      message |-> Trim(message),
      rationale |-> "AI-generated code review suggestion based on automated analysis",
      suggestion |-> Trim(suggestion)]

(***************************************************************************)
(* Final validation gate (GeminiLLMService)                                *)
(***************************************************************************)
Severities == {"critical", "major", "minor"}

\* variant: the line is not checked
CommentErrors_NoLineCheck(comment) ==
  (IF comment.filePath = "" THEN {"filePath is required"} ELSE {})
  \cup (IF Len(Trim(comment.message)) = 0
        THEN {"message is required and must be non-empty"} ELSE {})
  \cup (IF Len(Trim(comment.rationale)) = 0
        THEN {"rationale is required and must be non-empty"} ELSE {})
  \cup (IF comment.severity \notin Severities
        THEN {"severity must be critical, major, or minor"} ELSE {})

\* the per-comment checks of validateStructuredReview
CommentErrors(comment) ==
  (IF comment.filePath = "" THEN {"filePath is required"} ELSE {})
  \cup (IF Len(Trim(comment.message)) = 0
        THEN {"message is required and must be non-empty"} ELSE {})
  \cup (IF Len(Trim(comment.rationale)) = 0
        THEN {"rationale is required and must be non-empty"} ELSE {})
  \cup (IF comment.severity \notin Severities
        THEN {"severity must be critical, major, or minor"} ELSE {})
  \cup (IF comment.line < 1 THEN {"line must be a positive number"} ELSE {})

SuggestionOf(comment) ==
  IF "suggestion" \in DOMAIN comment /\ Trim(comment.suggestion) # ""
  THEN Trim(comment.suggestion)
  ELSE comment.message

TrimmedComment(comment) ==
  [filePath |-> comment.filePath,
   line |-> comment.line,
   severity |-> comment.severity,
   message |-> Trim(comment.message),
   rationale |-> Trim(comment.rationale),
   suggestion |-> SuggestionOf(comment)]

RECURSIVE ValidatedComments(_)
ValidatedComments(comments) ==
  IF comments = <<>> THEN <<>>
  ELSE IF CommentErrors(Head(comments)) = {}
       THEN <<TrimmedComment(Head(comments))>> \o ValidatedComments(Tail(comments))
       ELSE ValidatedComments(Tail(comments))

validateStructuredReview(review) ==
  LET summaryBad == Len(Trim(review.summary)) = 0
      summary == IF summaryBad
                 THEN "Code review completed with automated analysis"
                 ELSE review.summary
      validatedComments == ValidatedComments(review.comments)
  IN [isValid |-> ~summaryBad /\ Len(validatedComments) > 0,
      validatedResponse |-> [summary |-> Trim(summary),
                             comments |-> validatedComments],
      \* the argument as the function leaves it (summary replaced in place)
      reviewAfter |-> [summary |-> summary, comments |-> review.comments]]

SystemErrorComment ==
  [filePath |-> "unknown",
   line |-> 1,
   severity |-> "minor",
   message |-> "Automated code review system encountered an error. Manual review required.",
   rationale |-> "The AI review system was unable to complete analysis due to technical issues.",
   suggestion |-> "Please conduct a comprehensive manual code review for this pull request."]

EmergencyComment ==
  [filePath |-> "unknown",
   line |-> 1,
   severity |-> "minor",
   message |-> "Code review system error occurred",
   rationale |-> "Technical issue prevented automated analysis",
   suggestion |-> "Manual review required"]

FallbackSummary ==
  "Automated code review encountered technical difficulties. Manual review recommended."

\* variant: no built-in comment when there are no fallback comments
FallbackResponse_NoDefault(fallbackComments) ==
  [summary |-> FallbackSummary, comments |-> fallbackComments]

FallbackResponse(fallbackComments) ==
  LET fallbackResponse ==
        [summary |-> FallbackSummary,
         comments |-> IF Len(fallbackComments) > 0 THEN fallbackComments
                      ELSE <<SystemErrorComment>>]
  IN IF validateStructuredReview(fallbackResponse).isValid
     THEN fallbackResponse
     ELSE [fallbackResponse EXCEPT !.comments = <<EmergencyComment>>]

performFinalValidation(parsedResponse, fallbackComments) ==
  IF parsedResponse # JNull /\ validateStructuredReview(parsedResponse).isValid
  THEN [isValid |-> TRUE,
        validatedResponse |-> validateStructuredReview(parsedResponse).validatedResponse,
        fallbackUsed |-> FALSE]
  ELSE [isValid |-> FALSE,
        validatedResponse |-> FallbackResponse(fallbackComments),
        fallbackUsed |-> TRUE]

(***************************************************************************)
(* Pull-request contexts                                                   *)
(***************************************************************************)
FileApp == [path |-> "src/app.ts", additions |-> 120, deletions |-> 10]
FileReadme == [path |-> "README.md", additions |-> 3, deletions |-> 1]
FileAppAgain == [path |-> "src/app.ts", additions |-> 1, deletions |-> 0]

PRContexts ==
  { [changedFiles |-> <<>>],
    [changedFiles |-> <<FileApp>>],
    [changedFiles |-> <<FileApp, FileReadme, FileAppAgain>>] }

\* variant: paths are not de-duplicated
UniquePaths_NoDedup(files, seen) == [i \in 1..Len(files) |-> files[i].path]

RECURSIVE UniquePaths(_, _)
UniquePaths(files, seen) ==
  IF files = <<>> THEN <<>>
  ELSE IF Head(files).path \in seen THEN UniquePaths(Tail(files), seen)
  ELSE <<Head(files).path>> \o UniquePaths(Tail(files), seen \cup {Head(files).path})

\* changedFiles.find(f => f.path === filePath)
FindFile(files, filePath) ==
  files[CHOOSE i \in 1..Len(files) :
          /\ files[i].path = filePath
          /\ \A j \in 1..(i - 1) : files[j].path # filePath]

(***************************************************************************)
(* Fallback generator of GeminiLLMService                                  *)
(***************************************************************************)
HighRiskExtensions == {"ts", "tsx", "js", "jsx", "py", "java", "go", "rs"}

\* variant: the extension is not looked at
determineFallbackSeverity_NoRiskTier(additions, deletions, fileExtension) ==
  IF additions + deletions > 200 THEN "major" ELSE "minor"

determineFallbackSeverity(additions, deletions, fileExtension) ==
  LET totalChanges == additions + deletions
      isHighRisk == fileExtension \in HighRiskExtensions
  IN IF isHighRisk /\ totalChanges > 100 THEN "critical"
     ELSE IF isHighRisk /\ totalChanges > 20 THEN "major"
     ELSE IF totalChanges > 200 THEN "major"
     ELSE "minor"

generateFileSpecificFallbackMessage(fileName, fileExtension, additions, deletions) ==
  LET n == ToString(additions + deletions) IN
  CASE fileExtension \in {"ts", "tsx"} ->
         "TypeScript file " \o fileName \o " has " \o n \o " changes. Manual review recommended for type safety and code quality."
    [] fileExtension \in {"js", "jsx"} ->
         "JavaScript file " \o fileName \o " has " \o n \o " changes. Manual review recommended for potential runtime issues."
    [] fileExtension = "py" ->
         "Python file " \o fileName \o " has " \o n \o " changes. Manual review recommended for code quality and best practices."
    [] fileExtension = "java" ->
         "Java file " \o fileName \o " has " \o n \o " changes. Manual review recommended for object-oriented design."
    [] fileExtension = "go" ->
         "Go file " \o fileName \o " has " \o n \o " changes. Manual review recommended for concurrency and error handling."
    [] fileExtension = "rs" ->
         "Rust file " \o fileName \o " has " \o n \o " changes. Manual review recommended for memory safety and performance."
    [] fileExtension \in {"json", "yaml", "yml"} ->
         "Configuration file " \o fileName \o " has " \o n \o " changes. Manual review recommended for correctness."
    [] fileExtension = "md" ->
         "Documentation file " \o fileName \o " has " \o n \o " changes. Manual review recommended for accuracy."
    [] OTHER ->
         "File " \o fileName \o " has " \o n \o " changes. Manual review recommended for code quality."

TechnicalDifficultiesComment ==
  [filePath |-> "unknown",
   line |-> 1,
   severity |-> "minor",
   message |-> "Automated code review encountered technical difficulties. Manual review recommended.",
   rationale |-> "The AI review system was unable to complete analysis due to technical issues.",
   suggestion |-> "Please conduct a comprehensive manual code review for this pull request."]

\* the comment the forEach body builds for uniqueFiles[index] (index from 0)
GeminiFallbackComment(rawResponse, files, filePath, index) ==
  LET fileInfo == FindFile(files, filePath)
      fileName == FileNameOf(filePath)
      fileExtension == ToLowerCase(LastPart(fileName, "."))
      additions == fileInfo.additions
      deletions == fileInfo.deletions
      hasPartialResponse == rawResponse.hasSummaryKey \/ rawResponse.hasCommentsKey
      isLongResponse == rawResponse.length > 1000
      branch == IF hasPartialResponse /\ isLongResponse THEN "partial"
                ELSE IF rawResponse.length < 100 THEN "short"
                ELSE "standard"
      message ==
        CASE branch = "partial" ->
               "AI analysis partially completed for " \o fileName \o ". The response was truncated but indicates potential issues exist."
          [] branch = "short" ->
               "AI review failed for " \o fileName \o " due to API communication issues. Manual inspection required."
          [] OTHER ->
               generateFileSpecificFallbackMessage(fileName, fileExtension, additions, deletions)
      severity ==
        CASE branch = "partial" ->
               IF additions > 50 \/ deletions > 50 THEN "major" ELSE "minor"
          [] branch = "short" -> "major"
          [] OTHER -> determineFallbackSeverity(additions, deletions, fileExtension)
      rationale ==
        CASE branch = "partial" ->
               "The AI model generated a response but it was incomplete or malformed. Manual review is strongly recommended."
          [] branch = "short" ->
               "The AI service returned an incomplete or empty response, indicating a technical issue with the analysis."
          [] OTHER ->
               "Automated code review encountered a parsing error. Manual code review is recommended to ensure code quality."
  IN [filePath |-> filePath,
      line |-> Max(1, (index + 1) * 10),
      severity |-> severity,
      message |-> message,
      rationale |-> rationale,
      suggestion |-> "Please manually review " \o fileName
                     \o " for potential issues, especially in areas with significant changes ("
                     \o ToString(additions) \o " additions, "
                     \o ToString(deletions) \o " deletions)."]

GeminiGenerateFallbackComments(rawResponse, prCtx) ==
  LET uniqueFiles == UniquePaths(prCtx.changedFiles, {})
      fallback == [i \in 1..Len(uniqueFiles) |->
                     GeminiFallbackComment(rawResponse, prCtx.changedFiles,
                                           uniqueFiles[i], i - 1)]
  IN IF Len(fallback) = 0 THEN <<TechnicalDifficultiesComment>> ELSE fallback

(***************************************************************************)
(* Fallback generator of EnhancedAIReviewService                           *)
(***************************************************************************)
\* the suggestion carries an excerpt of the raw text, which the model of a
\* response does not hold; the fixed part of the text is kept
createFallbackComment(filePath, line, rawMessage) ==
  [filePath |-> filePath,
   line |-> line,
   severity |-> "minor",
   message |-> "Unable to parse AI suggestion",
   rationale |-> "The AI provided feedback that could not be properly structured. Manual review recommended.",
   suggestion |-> rawMessage]

EnhancedGenerateFallbackComments(rawResponse, prCtx) ==
  LET uniqueFiles == UniquePaths(prCtx.changedFiles, {})
  IN [i \in 1..Len(uniqueFiles) |->
        createFallbackComment(uniqueFiles[i], 1,
          "AI analysis completed but response format was invalid. Manual review recommended. Raw response: ")]

(***************************************************************************)
(* Model responses.  A response text is described by what the code reads   *)
(* of it: how far JSON recovery gets (form), the document it holds (doc),  *)
(* its length and whether it mentions the "summary" / "comments" keys.     *)
(*   json       JSON.parse(raw) succeeds                                   *)
(*   fenced     parses after the fences/backticks are stripped             *)
(*   repairable parses after key quoting / trailing-comma repair           *)
(*   fragments  has braces but neither cleanup nor repair makes it parse;  *)
(*              doc is what the fragment regexes find in the text          *)
(*   nobrace    contains no '{' or no '}'                                  *)
(***************************************************************************)
Obj(summary, comments) == [t |-> "obj", summary |-> summary, comments |-> comments]

CodeComment ==
  [t |-> "obj", filePath |-> Str("src/app.ts"), line |-> Num(5),
   code |-> Str(" use a parameterized query "), severity |-> Str("high")]

SloppyComment ==
  [t |-> "obj", filePath |-> Str(""), line |-> Num(0),
   code |-> Str("  "), severity |-> Str("CRITICAL bug")]

CanonicalComment ==
  [t |-> "obj", filePath |-> Str("src/app.ts"), line |-> Num(5),
   severity |-> Str("critical"), message |-> Str("SQL injection"),
   rationale |-> Str("user input concatenated into query string without parameterization")]

MinorComment ==
  [t |-> "obj", filePath |-> Str("README.md"), line |-> Num(2),
   severity |-> Str("minor"), message |-> Str("typo in heading"),
   rationale |-> Str("the heading misspells the project name"),
   suggestion |-> Str("fix the spelling")]

\* a fragment without a usable line: dropped by reconstruction
LinelessFragment ==
  [t |-> "obj", filePath |-> Str("src/app.ts"), code |-> Str("check the null case")]

DocCode == Obj(Str("Adds input validation to the login handler"), Arr(<<CodeComment>>))
DocSloppy == Obj(Str(""), Arr(<<SloppyComment, CodeComment>>))
DocBlankSummary == Obj(Str("   "), Arr(<<CodeComment>>))
DocCanonical == Obj(Str("Review of the login handler changes"),
                    Arr(<<CanonicalComment, MinorComment>>))
\* summary 'ok' and one comment in the canonical form of ReviewComment
DocScenarioA == Obj(Str("ok"), Arr(<<CanonicalComment>>))
DocNoComments == Obj(Str("No issues found in this change"), Arr(<<>>))
DocBadTypes == Obj(Num(1), Str("n/a"))
DocFragments == Obj(Absent, Arr(<<LinelessFragment, SloppyComment>>))

Raw(form, doc, length, hasSummaryKey, hasCommentsKey) ==
  [form |-> form, doc |-> doc, length |-> length,
   hasSummaryKey |-> hasSummaryKey, hasCommentsKey |-> hasCommentsKey]

\* rawResponse = ''
NoRaw == Raw("none", Absent, 0, FALSE, FALSE)

Responses ==
  { Raw("json", DocCode, 300, TRUE, TRUE),
    Raw("fenced", DocSloppy, 200, TRUE, TRUE),
    Raw("json", DocBlankSummary, 150, TRUE, TRUE),
    Raw("json", DocCanonical, 400, TRUE, TRUE),
    Raw("json", DocScenarioA, 180, TRUE, TRUE),
    Raw("repairable", DocNoComments, 60, TRUE, TRUE),
    Raw("json", DocBadTypes, 1500, TRUE, TRUE),
    Raw("json", Num(42), 2, FALSE, FALSE),
    Raw("fragments", DocFragments, 1200, FALSE, TRUE),
    Raw("nobrace", Absent, 40, FALSE, FALSE) }

(***************************************************************************)
(* JSON recovery                                                           *)
(***************************************************************************)
NoJson == [t |-> "null"]
JsonText(parses, doc) == [t |-> "text", parses |-> parses, doc |-> doc]

PlaceholderFragment ==
  [t |-> "obj", filePath |-> Str("unknown"), line |-> Num(1),
   code |-> Str("Manual review recommended due to incomplete AI response"),
   severity |-> Str("medium")]

RECURSIVE ValidFragments(_)
ValidFragments(frags) ==
  IF frags = <<>> THEN <<>>
  ELSE LET f == Head(frags)
           fileMatch == IsStr(Prop(f, "filePath")) /\ Prop(f, "filePath").s # ""
           lineMatch == IsNum(Prop(f, "line")) /\ Prop(f, "line").n >= 0
           codeMatch == IsStr(Prop(f, "code"))
           severityMatch == IsStr(Prop(f, "severity")) /\ Prop(f, "severity").s # ""
       IN IF fileMatch /\ lineMatch
          THEN << [t |-> "obj",
                   filePath |-> f.filePath,
                   line |-> f.line,
                   code |-> IF codeMatch THEN f.code
                            ELSE Str("Review this code section for potential improvements"),
                   severity |-> IF severityMatch THEN f.severity ELSE Str("medium")] >>
               \o ValidFragments(Tail(frags))
          ELSE ValidFragments(Tail(frags))

\* the document that JSON.parse reads back from the reconstructed string
reconstructJsonFromFragments(response) ==
  LET summaryMatch == IsStr(Prop(response.doc, "summary"))
      summary == IF summaryMatch THEN response.doc.summary
                 ELSE Str("Code review completed with automated analysis")
      commentsMatch == IsArr(Prop(response.doc, "comments"))
      validComments == IF commentsMatch THEN ValidFragments(response.doc.comments.a)
                       ELSE <<>>
  IN Obj(summary,
         Arr(IF Len(validComments) = 0 THEN <<PlaceholderFragment>> ELSE validComments))

\* indexOf('{') and lastIndexOf('}') both find a delimiter
HasBraces(response) ==
  response.form # "nobrace" /\ (response.form = "json" => IsObj(response.doc))

\* the parse attempts made, in order, and the one that succeeded
GeminiRecoveryStages(response) ==
  CASE ~HasBraces(response) -> [ran |-> <<>>, parsedAt |-> "none"]
    [] response.form \in {"json", "fenced"} ->
         [ran |-> <<"cleanup">>, parsedAt |-> "cleanup"]
    [] response.form = "repairable" ->
         [ran |-> <<"cleanup", "repair">>, parsedAt |-> "repair"]
    [] OTHER ->
         [ran |-> <<"cleanup", "repair", "reconstruct">>, parsedAt |-> "reconstruct"]

GeminiExtractValidJson(response) ==
  CASE ~HasBraces(response) -> NoJson
    [] response.form \in {"json", "fenced", "repairable"} -> JsonText(TRUE, response.doc)
    [] OTHER -> JsonText(TRUE, reconstructJsonFromFragments(response))

\* no reconstruction stage: the repaired text is returned unchecked
EnhancedExtractValidJson(response) ==
  CASE ~HasBraces(response) -> NoJson
    [] response.form \in {"json", "fenced", "repairable"} -> JsonText(TRUE, response.doc)
    [] OTHER -> JsonText(FALSE, Absent)

(***************************************************************************)
(* Strict review schema (ajv) used by EnhancedAIReviewService              *)
(***************************************************************************)
StrLenIn(v, lo, hi) == IsStr(v) /\ Len(v.s) >= lo /\ Len(v.s) <= hi

\* validateReviewComment: reviewCommentSchema
ReviewCommentSchemaOk(c) ==
  /\ IsObj(c)
  /\ Keys(c) \subseteq {"filePath", "line", "severity", "message", "rationale", "suggestion"}
  /\ {"filePath", "line", "severity", "message", "rationale"} \subseteq Keys(c)
  /\ IsStr(c.filePath) /\ Len(c.filePath.s) >= 1
  /\ IsNum(c.line) /\ c.line.n >= 1
  /\ IsStr(c.severity) /\ c.severity.s \in Severities
  /\ StrLenIn(c.message, 1, 500)
  /\ StrLenIn(c.rationale, 10, 1000)
  /\ ("suggestion" \in Keys(c) => StrLenIn(c.suggestion, 0, 2000))

\* validateStructuredAIReview: structuredAIReviewSchema
StructuredAIReviewSchemaOk(data) ==
  /\ IsObj(data)
  /\ Keys(data) \subseteq {"summary", "comments", "metadata"}
  /\ {"summary", "comments"} \subseteq Keys(data)
  /\ StrLenIn(data.summary, 10, 2000)
  /\ IsArr(data.comments) /\ Len(data.comments.a) <= 50
  /\ \A i \in 1..Len(data.comments.a) : ReviewCommentSchemaOk(data.comments.a[i])

\* data as unknown as ReviewComment
AsReviewComment(c) ==
  IF "suggestion" \in Keys(c)
  THEN [filePath |-> c.filePath.s, line |-> c.line.n, severity |-> c.severity.s,
        message |-> c.message.s, rationale |-> c.rationale.s,
        suggestion |-> c.suggestion.s]
  ELSE [filePath |-> c.filePath.s, line |-> c.line.n, severity |-> c.severity.s,
        message |-> c.message.s, rationale |-> c.rationale.s]

CountSeverity(comments, sev) ==
  Cardinality({i \in 1..Len(comments) : comments[i].severity = sev})

\* validateStructuredAIReviewData(data).review for data that is valid
StructuredReviewOf(data) ==
  LET comments == [i \in 1..Len(data.comments.a) |-> AsReviewComment(data.comments.a[i])]
  IN [summary |-> data.summary.s,
      comments |-> comments,
      metadata |-> [totalComments |-> Len(comments),
                    severityBreakdown |-> [critical |-> CountSeverity(comments, "critical"),
                                           major |-> CountSeverity(comments, "major"),
                                           minor |-> CountSeverity(comments, "minor")],
                    analysisTime |-> 0]]

(***************************************************************************)
(* Comment filter (RepoConfigService).  Thresholds and Math.random()       *)
(* values are in hundredths: 70 stands for 0.7, a draw lies in 0..99.      *)
(***************************************************************************)
RandomValues == {0, 50, 99}

DefaultThresholds ==
  [ignoreMinorThreshold |-> 70,
   ignoreMajorThreshold |-> 30,
   maxCommentsPerReview |-> 20,
   enabledSeverities |-> {"critical", "major", "minor"}]

\* stored configurations, with the thresholds the feedback service derives
RepoConfigs ==
  { [enabledSeverities |-> {"critical", "major", "minor"},
     adaptiveThresholds |-> TRUE,
     manualThresholds |-> [ignoreMinorThreshold |-> 70, ignoreMajorThreshold |-> 30,
                           maxCommentsPerReview |-> 20],
     adaptive |-> [ignoreMinorThreshold |-> 100, ignoreMajorThreshold |-> 0]],
    [enabledSeverities |-> {"critical", "minor"},
     adaptiveThresholds |-> FALSE,
     manualThresholds |-> [ignoreMinorThreshold |-> 0, ignoreMajorThreshold |-> 30,
                           maxCommentsPerReview |-> 1],
     adaptive |-> [ignoreMinorThreshold |-> 70, ignoreMajorThreshold |-> 30]] }

NoConfig == [t |-> "none"]

\* lookupOk: whether getOrCreateConfig succeeds inside getEffectiveThresholds
getEffectiveThresholds(config, lookupOk) ==
  IF ~lookupOk THEN DefaultThresholds
  ELSE [ignoreMinorThreshold |-> IF config.adaptiveThresholds
                                 THEN config.adaptive.ignoreMinorThreshold
                                 ELSE config.manualThresholds.ignoreMinorThreshold,
        ignoreMajorThreshold |-> IF config.adaptiveThresholds
                                 THEN config.adaptive.ignoreMajorThreshold
                                 ELSE config.manualThresholds.ignoreMajorThreshold,
        maxCommentsPerReview |-> config.manualThresholds.maxCommentsPerReview,
        enabledSeverities |-> config.enabledSeverities]

SelectSeq2(seq, Keep(_, _)) ==
  LET F[i \in 0..Len(seq)] ==
        IF i = 0 THEN <<>>
        ELSE IF Keep(seq[i], i) THEN Append(F[i - 1], seq[i]) ELSE F[i - 1]
  IN F[Len(seq)]

severityOrder(sev) ==
  CASE sev = "critical" -> 3 [] sev = "major" -> 2 [] sev = "minor" -> 1 [] OTHER -> 0

\* variant: no sort before the slice
SortBySeverity_Unsorted(comments) == comments

\* Array.prototype.sort with the severity comparator (stable)
SortBySeverity(comments) ==
  LET OfRank(r) == SelectSeq(comments, LAMBDA c : severityOrder(c.severity) = r)
  IN OfRank(3) \o OfRank(2) \o OfRank(1)

\* variant: critical comments are drawn for like major ones
DropStep_NoExemption(enabled, thresholds, draws) ==
  SelectSeq2(enabled,
    LAMBDA c, i :
      IF c.severity = "minor" THEN draws[i] > thresholds.ignoreMinorThreshold
      ELSE draws[i] > thresholds.ignoreMajorThreshold)

\* the loop over the enabled comments; draws[i] is the Math.random() value
\* taken for the i-th enabled comment when it is minor or major
DropStep(enabled, thresholds, draws) ==
  SelectSeq2(enabled,
    LAMBDA c, i :
      IF c.severity = "minor" THEN draws[i] > thresholds.ignoreMinorThreshold
      ELSE IF c.severity = "major" THEN draws[i] > thresholds.ignoreMajorThreshold
      ELSE TRUE)

\* thresholdsOk / configOk: outcomes of the two configuration lookups
filterComments(comments, config, thresholdsOk, configOk, draws) ==
  IF ~configOk THEN comments
  ELSE
    LET thresholds == getEffectiveThresholds(config, thresholdsOk)
        enabled == SelectSeq(comments,
                     LAMBDA c : c.severity \in thresholds.enabledSeverities)
        finalComments == DropStep(enabled, thresholds, draws)
    IN IF Len(finalComments) > thresholds.maxCommentsPerReview
       THEN SubSeq(SortBySeverity(finalComments), 1, thresholds.maxCommentsPerReview)
       ELSE finalComments

(***************************************************************************)
(* State                                                                   *)
(***************************************************************************)
VARIABLES
  svc,               \* which orchestrator runs: "gemini" or "openrouter"
  action,            \* the pull-request event of the job
  apiKeySet,         \* whether the API credential is configured
  prContext,         \* the PRContext passed in
  repoConfig,        \* the stored repository configuration
  pc,                \* position of generateEnhancedReview
  attempt,           \* loop variable
  retryCount,
  rawResponse,
  parsedResponse,
  validationErrors,  \* "null" or the first message
  fallbackComments,
  error,             \* "undefined" or the message
  delayMs,           \* the backoff being awaited (0 when none)
  envelope,          \* the returned value
  calls,             \* history: model calls issued
  rateLimitRetries,  \* history: retries made after an HTTP 429
  lastFailure,       \* history: how the latest attempt ended
  lastStatus,        \* history: HTTP status of the latest attempt (0: none)
  allUnparseable,    \* history: every call so far ended in a JSON parse failure
  waitLog,           \* history: the first WaitLogLen backoff waits
  filterOutput,      \* history: finalComments of EnhancedAIReviewService
  jobPc,             \* position of performPRReview
  aiReviews,         \* stored AIReview records
  posted,            \* reviews posted to GitHub
  call,              \* a direct call of one function: name, arguments, result
  attemptsMade,      \* runs of the current queue job so far
  eventNo,           \* which pull-request event the queue is working on
  reviewsAtEventStart, \* history: number of AIReview records when the event arrived
  inflight,          \* model requests issued and not yet settled
  circuitBreakerState,            \* Mem0Service: 'closed', 'open' or 'half-open'
  circuitBreakerFailures,
  circuitBreakerLastFailureTime,
  now,               \* Date.now(), in ms
  ops,               \* Mem0Service: the executeWithRetry calls in progress
  failuresSinceSuccess, \* history: failed operations since the last success or reset
  openedAt,          \* history: time of the failure that opened the breaker
  closedFrom,        \* history: the state from which 'closed' was last entered
  lastStep,          \* history: the latest step of Mem0Service
  installations,     \* Installation collection: per id "absent", "linked" or "unlinked"
  pullRequests,      \* PullRequest collection: the PR numbers stored
  jobsEnqueued,      \* jobs added to the queue for the user, per calendar day
  monthlyUsageCount, \* User document
  dailyUsageCount,
  dailyResetDate,
  today,             \* the calendar day of new Date()
  reqs,              \* webhook deliveries being handled
  queueTasks,        \* QueueTask collection: status per pull request
  workers            \* the worker's concurrent processPRReviewJob runs

loopVars == <<attempt, retryCount, rawResponse, parsedResponse, validationErrors,
              fallbackComments, error, delayMs>>
histVars == <<calls, rateLimitRetries, lastFailure, lastStatus, allUnparseable, waitLog,
              filterOutput>>
inputVars == <<svc, action, apiKeySet, prContext, repoConfig>>
jobVars == <<jobPc, aiReviews, posted>>
unitVars == <<call>>
queueVars == <<attemptsMade, eventNo, reviewsAtEventStart>>
raceVars == <<inflight>>
breakerVars == <<circuitBreakerState, circuitBreakerFailures, circuitBreakerLastFailureTime,
                 now, ops, failuresSinceSuccess, openedAt, closedFrom, lastStep>>
webhookVars == <<installations, pullRequests, jobsEnqueued, monthlyUsageCount,
                 dailyUsageCount, dailyResetDate, today, reqs>>
taskVars == <<queueTasks, workers>>
serverVars == <<breakerVars, webhookVars, taskVars>>
otherVars == <<queueVars, raceVars, serverVars>>

(***************************************************************************)
(* Mem0Service: fields and bounds                                          *)
(***************************************************************************)
circuitBreakerThreshold == 5
circuitBreakerTimeout == 60000
defaultTimeout == 30000
defaultRetries == 3

\* executeWithRetry calls that can be in progress together
MaxOps == 2
\* the clock advances in steps of defaultTimeout, this many times
MaxTicks == 5
\* no operation is started once this many failures are counted
MaxFailures == 7

OpIds == 1..MaxOps
IdleOp == [pc |-> "idle", attempt |-> 0]

\* the fields as the class initialises them
BreakerInit ==
  /\ circuitBreakerState = "closed"
  /\ circuitBreakerFailures = 0
  /\ circuitBreakerLastFailureTime = 0
  /\ now = 0
  /\ ops = [o \in OpIds |-> IdleOp]
  /\ failuresSinceSuccess = 0
  /\ openedAt = 0
  /\ closedFrom = "none"
  /\ lastStep = "none"

(***************************************************************************)
(* Webhook route, usage limits and queue worker: constants and bounds      *)
(***************************************************************************)
USAGE_LIMITS_MONTHLY == 10
USAGE_LIMITS_DAILY == 3
concurrency == 5

\* webhook deliveries that can be handled together
MaxRequests == 2
\* days 0..MaxDay, all of one calendar month
MaxDay == 1
\* no delivery is accepted once this many jobs are enqueued or about to be
MaxJobs == 4

Slots == 1..MaxRequests
Days == 0..MaxDay
InstallationIds == {1}
PRNumbers == {1, 2}
WorkerIds == 1..concurrency
NoRequest == [pc |-> "none", event |-> "none", signature |-> "none", status |-> 0,
              daily |-> 0, monthly |-> 0, resetDate |-> 0, modified |-> {}]
IdleWorker == [pc |-> "idle", prNumber |-> 0]

\* one user who authenticated and whose installation 1 is stored
WebhookInit ==
  /\ installations = [i \in InstallationIds |-> IF i = 1 THEN "linked" ELSE "absent"]
  /\ pullRequests = {}
  /\ jobsEnqueued = [d \in Days |-> 0]
  /\ monthlyUsageCount = 0
  /\ dailyUsageCount = 0
  /\ dailyResetDate = 0
  /\ today = 0
  /\ reqs = [s \in Slots |-> NoRequest]

TaskInit ==
  /\ queueTasks = [p \in PRNumbers |-> "none"]
  /\ workers = [w \in WorkerIds |-> IdleWorker]

vars == <<inputVars, pc, loopVars, envelope, histVars, jobVars, unitVars, otherVars>>

Services == {"gemini", "openrouter"}
Statuses == {429, 500, 502, 503, 400, 401, 403}
\* variant: a client error treated as transient
ServerErrorStatuses_With400 == {500, 502, 503, 400}

ServerErrorStatuses == {500, 502, 503}

NoEnvelope == [t |-> "none"]
NoCall == [fn |-> "none"]

Init ==
  /\ svc \in Services
  \* only EnhancedAIReviewService runs inside a review job and reads the
  \* repository configuration
  /\ action \in IF svc = "openrouter" THEN {"opened", "synchronize"} ELSE {"none"}
  /\ repoConfig \in IF svc = "openrouter" THEN RepoConfigs ELSE {NoConfig}
  /\ apiKeySet \in BOOLEAN
  /\ prContext \in PRContexts
  /\ pc = "preflight"
  /\ attempt = 0
  /\ retryCount = 0
  /\ rawResponse = NoRaw
  /\ parsedResponse = JNull
  /\ validationErrors = "null"
  /\ fallbackComments = <<>>
  /\ error = "undefined"
  /\ delayMs = 0
  /\ envelope = NoEnvelope
  /\ calls = 0
  /\ rateLimitRetries = 0
  /\ lastFailure = "none"
  /\ lastStatus = 0
  /\ allUnparseable = TRUE
  /\ waitLog = <<>>
  /\ filterOutput = <<>>
  /\ jobPc = IF svc = "openrouter" THEN "review" ELSE "none"
  /\ aiReviews = <<>>
  /\ posted = <<>>
  /\ call = NoCall
  /\ attemptsMade = IF svc = "openrouter" THEN 1 ELSE 0
  /\ eventNo = IF svc = "openrouter" THEN 1 ELSE 0
  /\ reviewsAtEventStart = 0
  /\ inflight = 0
  /\ BreakerInit
  /\ WebhookInit
  /\ TaskInit

(***************************************************************************)
(* Backoff schedules                                                       *)
(***************************************************************************)
\* variant: the cap is missing
CappedDelay_Uncapped(a) == RETRY_DELAY_MS * Pow2(a)

\* RETRY_DELAY_MS * Math.pow(2, Math.min(attempt, 3))
CappedDelay(a) == RETRY_DELAY_MS * Pow2(Min(a, 3))
\* RETRY_DELAY_MS * Math.pow(2, attempt)
ParseFailureDelay(a) == RETRY_DELAY_MS * Pow2(a)
\* variant: the exponent counts from one
RateLimitDelay_OneBased(a) == RATE_LIMIT_BACKOFF_MS * Pow2(a + 1)

\* RATE_LIMIT_BACKOFF_MS * Math.pow(2, attempt)
RateLimitDelay(a) == RATE_LIMIT_BACKOFF_MS * Pow2(a)

\* variant: one retry fewer
MayRetry_OneFewer(a) == a < MAX_RETRIES - 1

\* variant: one retry more
MayRetry_OneMore(a) == a < MAX_RETRIES + 1

\* attempt < MAX_RETRIES
MayRetry(a) == a < MAX_RETRIES
\* status === 429 && attempt < MAX_RATE_LIMIT_RETRIES
MayRetryRateLimit(a) == a < MAX_RATE_LIMIT_RETRIES

(***************************************************************************)
(* One pass of the retry loop, as a function of the locals and of what     *)
(* the model call delivers.  The result says how the pass ends:            *)
(* cont = TRUE is `await delay(delay); continue`, FALSE leaves the loop.   *)
(***************************************************************************)
Locals ==
  [raw |-> rawResponse, parsed |-> parsedResponse, valErrs |-> validationErrors,
   fallback |-> fallbackComments, err |-> error,
   cont |-> FALSE, delay |-> 0, cause |-> "none", status |-> 0]

Continue(l, ms, cause) == [l EXCEPT !.cont = TRUE, !.delay = ms, !.cause = cause]
\* variant: a successful attempt is followed by another try
Leave_RetriesAfterSuccess(l, cause) ==
  [l EXCEPT !.cont = (cause = "none"), !.delay = 0, !.cause = cause]

Leave(l, cause) == [l EXCEPT !.cont = FALSE, !.delay = 0, !.cause = cause]

\* GeminiLLMService: a completion with non-empty content
GeminiOnContent(l0, a, raw, prCtx) ==
  LET l == [l0 EXCEPT !.raw = raw]
      direct == raw.form = "json"
      extracted == GeminiExtractValidJson(raw)
  IN IF ~direct /\ extracted = NoJson
     THEN LET f == [l EXCEPT !.valErrs = "Failed to parse as JSON"]
          IN IF MayRetry(a) THEN Continue(f, ParseFailureDelay(a), "parse")
             ELSE Leave(f, "parse")
     ELSE IF ~direct /\ ~extracted.parses
     THEN LET f == [l EXCEPT !.valErrs = "Failed to parse extracted JSON"]
          IN IF MayRetry(a) THEN Continue(f, ParseFailureDelay(a), "parse")
             ELSE Leave(f, "parse")
     ELSE LET parsedJson == IF direct THEN raw.doc ELSE extracted.doc
          IN IF ~RawAIReviewSchemaOk(parsedJson)
             THEN LET f == [l EXCEPT !.valErrs = "schema validation failed"]
                  IN IF MayRetry(a) THEN Continue(f, CappedDelay(a), "validation")
                     ELSE Leave([f EXCEPT !.fallback =
                                   GeminiGenerateFallbackComments(raw, prCtx)],
                                "validation")
             ELSE LET aiReview == AIReviewSchema(parsedJson)
                      review ==
                        [summary |-> IF aiReview.summary = ""
                                     THEN "Code review completed with automated analysis"
                                     ELSE aiReview.summary,
                         comments |-> [i \in 1..Len(aiReview.comments) |->
                                         validateAndRepairComment(aiReview.comments[i])]]
                  IN Leave([l EXCEPT !.parsed = review, !.valErrs = "null"], "none")

\* variant: the catch block retries as the code does but keeps no message
GeminiOnError_Unrecorded(l0, a, kind, status) ==
  LET l == [l0 EXCEPT !.status = status]
  IN IF kind = "api" /\ status = 429 /\ a < MAX_RATE_LIMIT_RETRIES
     THEN [l EXCEPT !.cont = TRUE, !.delay = RATE_LIMIT_BACKOFF_MS * Pow2(a),
                    !.cause = kind]
     ELSE IF (kind # "api" \/ status \in {500, 502, 503}) /\ a < MAX_RETRIES
     THEN [l EXCEPT !.cont = TRUE, !.delay = RETRY_DELAY_MS * Pow2(Min(a, 3)),
                    !.cause = kind]
     ELSE [l EXCEPT !.cont = FALSE, !.delay = 0, !.cause = kind]

\* GeminiLLMService: the catch block.  kind is "api" (OpenAI.APIError with
\* the given status), "timeout" (the local timer won the race) or "empty"
\* (a completion without content)
GeminiOnError(l0, a, kind, status) ==
  IF kind = "api"
  THEN LET l == [l0 EXCEPT !.err = "API Error " \o ToString(status),
                           !.status = status]
       IN IF status = 429 /\ MayRetryRateLimit(a)
          THEN Continue(l, RateLimitDelay(a), "api")
          ELSE IF status \in ServerErrorStatuses /\ MayRetry(a)
          THEN Continue(l, CappedDelay(a), "api")
          ELSE Leave(l, "api")
  ELSE LET l == IF kind = "empty"
                THEN [l0 EXCEPT !.raw = NoRaw,
                                !.err = "No response received from Gemini model"]
                ELSE [l0 EXCEPT !.err = "API call timed out"]
       IN IF MayRetry(a) THEN Continue(l, CappedDelay(a), kind)
          ELSE Leave(l, kind)

\* EnhancedAIReviewService: a completion with non-empty content
EnhancedOnContent(l0, a, raw, prCtx) ==
  LET l == [l0 EXCEPT !.raw = raw]
      direct == raw.form = "json"
      extracted == EnhancedExtractValidJson(raw)
  IN IF ~direct /\ extracted = NoJson
     THEN LET f == [l EXCEPT !.valErrs = "Failed to parse as JSON"]
          IN IF MayRetry(a) THEN Continue(f, ParseFailureDelay(a), "parse")
             ELSE Leave(f, "parse")
     ELSE IF ~direct /\ ~extracted.parses
     THEN LET f == [l EXCEPT !.valErrs = "Failed to parse extracted JSON"]
          IN IF MayRetry(a) THEN Continue(f, ParseFailureDelay(a), "parse")
             ELSE Leave(f, "parse")
     ELSE LET parsedJson == IF direct THEN raw.doc ELSE extracted.doc
          IN IF ~StructuredAIReviewSchemaOk(parsedJson)
             THEN LET f == [l EXCEPT !.valErrs = "schema validation failed"]
                  IN IF a = MAX_RETRIES
                     THEN Leave([f EXCEPT !.fallback =
                                   EnhancedGenerateFallbackComments(raw, prCtx)],
                                "validation")
                     ELSE IF MayRetry(a) THEN Continue(f, CappedDelay(a), "validation")
                     ELSE Leave(f, "validation")
             ELSE Leave([l EXCEPT !.parsed = StructuredReviewOf(parsedJson),
                                  !.valErrs = "null"], "none")

\* EnhancedAIReviewService: the catch block.  kind is "api" (an axios error
\* with a response of the given status), "timeout" (axios error with code
\* ECONNABORTED and no response) or "empty" (a plain Error)
EnhancedOnError(l0, a, kind, status) ==
  IF kind = "api"
  THEN LET l == [l0 EXCEPT !.err = "API Error " \o ToString(status),
                           !.status = status]
       IN IF status = 429 /\ MayRetryRateLimit(a)
          THEN Continue(l, RateLimitDelay(a), "api")
          ELSE IF status \in ServerErrorStatuses /\ MayRetry(a)
          THEN Continue(l, CappedDelay(a), "api")
          ELSE Leave(l, "api")
  ELSE IF kind = "timeout"
  THEN LET l == [l0 EXCEPT !.err = "API Error undefined"]
       IN IF MayRetry(a) THEN Continue(l, CappedDelay(a), "timeout")
          ELSE Leave(l, "timeout")
  ELSE Leave([l0 EXCEPT !.raw = NoRaw,
                        !.err = "No response received from AI model"], "empty")

(***************************************************************************)
(* The returned envelopes                                                  *)
(***************************************************************************)
\* variant: success computed from the error alone
GeminiEnvelope_SuccessIgnoresValidation(l, retries) ==
  LET finalValidation == performFinalValidation(l.parsed, l.fallback)
  IN [response |->
        [raw |-> l.raw,
         parsed |-> finalValidation.validatedResponse,
         validationErrors |-> l.valErrs,
         fallbackComments |-> IF finalValidation.fallbackUsed
                              THEN finalValidation.validatedResponse.comments
                              ELSE l.fallback,
         retryCount |-> retries],
      metadata |->
        [success |-> l.err = "undefined",
         error |-> l.err,
         schemaValidationPassed |-> finalValidation.isValid,
         finalCommentsCount |-> Len(finalValidation.validatedResponse.comments),
         fallbackUsed |-> finalValidation.fallbackUsed]]

GeminiEnvelope(l, retries) ==
  LET finalValidation == performFinalValidation(l.parsed, l.fallback)
  IN [response |->
        [raw |-> l.raw,
         parsed |-> finalValidation.validatedResponse,
         validationErrors |-> l.valErrs,
         fallbackComments |-> IF finalValidation.fallbackUsed
                              THEN finalValidation.validatedResponse.comments
                              ELSE l.fallback,
         retryCount |-> retries],
      metadata |->
        [success |-> l.err = "undefined" /\ finalValidation.isValid,
         error |-> l.err,
         schemaValidationPassed |-> finalValidation.isValid,
         finalCommentsCount |-> Len(finalValidation.validatedResponse.comments),
         fallbackUsed |-> finalValidation.fallbackUsed]]

\* finalComments: what filterComments returned ("<<>>" when it was not called)
EnhancedEnvelope(l, retries, finalComments) ==
  [response |->
     [raw |-> l.raw,
      parsed |-> IF l.parsed # JNull
                 THEN [l.parsed EXCEPT !.comments = finalComments]
                 ELSE JNull,
      validationErrors |-> l.valErrs,
      fallbackComments |-> l.fallback,
      retryCount |-> retries],
   metadata |->
     [success |-> l.err = "undefined" /\ l.valErrs = "null" /\ l.parsed # JNull,
      error |-> l.err,
      schemaValidationPassed |-> l.valErrs = "null",
      finalCommentsCount |-> Len(finalComments)]]

(***************************************************************************)
(* Actions of generateEnhancedReview                                       *)
(***************************************************************************)
\* variant: the credential is not checked
Preflight_NoCheck ==
  /\ pc = "preflight"
  /\ pc' = "request"
  /\ UNCHANGED <<unitVars, otherVars, inputVars, loopVars, envelope, histVars, jobVars>>

\* the pre-flight configuration check
Preflight ==
  /\ pc = "preflight"
  /\ pc' = IF apiKeySet THEN "request" ELSE "thrown"
  /\ UNCHANGED <<unitVars, otherVars, inputVars, loopVars, envelope, histVars, jobVars>>

\* the effect of one pass of the loop that ends as r says; GeminiLLMService
\* returns in the same step, EnhancedAIReviewService goes on to the filter
EndAttempt(r) ==
  /\ calls' = calls + 1
  /\ retryCount' = attempt
  /\ attempt' = attempt
  /\ rawResponse' = r.raw
  /\ parsedResponse' = r.parsed
  /\ validationErrors' = r.valErrs
  /\ fallbackComments' = r.fallback
  /\ error' = r.err
  /\ delayMs' = r.delay
  /\ lastFailure' = r.cause
  /\ lastStatus' = r.status
  /\ allUnparseable' = (allUnparseable /\ r.cause = "parse")
  /\ rateLimitRetries' = IF r.cont /\ r.status = 429
                         THEN rateLimitRetries + 1 ELSE rateLimitRetries
  /\ waitLog' = IF r.cont /\ Len(waitLog) < WaitLogLen
                THEN Append(waitLog, r.delay) ELSE waitLog
  /\ filterOutput' = filterOutput
  /\ pc' = IF r.cont THEN "delay"
           ELSE IF svc = "gemini" THEN "returned" ELSE "filter"
  /\ envelope' = IF ~r.cont /\ svc = "gemini"
                 THEN GeminiEnvelope(r, attempt) ELSE envelope
  /\ UNCHANGED <<unitVars, inputVars, jobVars>>

GeminiContent ==
  /\ svc = "gemini" /\ pc = "request"
  /\ \E raw \in Responses :
       EndAttempt(GeminiOnContent(Locals, attempt, raw, prContext))
  /\ UNCHANGED otherVars

GeminiEmptyContent ==
  /\ svc = "gemini" /\ pc = "request"
  /\ EndAttempt(GeminiOnError(Locals, attempt, "empty", 0))
  /\ UNCHANGED otherVars

GeminiTimeout ==
  /\ svc = "gemini" /\ pc = "request"
  /\ EndAttempt(GeminiOnError(Locals, attempt, "timeout", 0))
  /\ UNCHANGED otherVars

GeminiApiError ==
  /\ svc = "gemini" /\ pc = "request"
  /\ \E status \in Statuses :
       EndAttempt(GeminiOnError(Locals, attempt, "api", status))
  /\ UNCHANGED otherVars

EnhancedContent ==
  /\ svc = "openrouter" /\ pc = "request"
  /\ \E raw \in Responses :
       EndAttempt(EnhancedOnContent(Locals, attempt, raw, prContext))
  /\ UNCHANGED otherVars

EnhancedEmptyContent ==
  /\ svc = "openrouter" /\ pc = "request"
  /\ EndAttempt(EnhancedOnError(Locals, attempt, "empty", 0))
  /\ UNCHANGED otherVars

EnhancedTimeout ==
  /\ svc = "openrouter" /\ pc = "request"
  /\ EndAttempt(EnhancedOnError(Locals, attempt, "timeout", 0))
  /\ UNCHANGED otherVars

EnhancedApiError ==
  /\ svc = "openrouter" /\ pc = "request"
  /\ \E status \in Statuses :
       EndAttempt(EnhancedOnError(Locals, attempt, "api", status))
  /\ UNCHANGED otherVars

\* await this.delay(ms); continue
DelayElapsed ==
  /\ pc = "delay"
  /\ pc' = "request"
  /\ attempt' = attempt + 1
  /\ delayMs' = 0
  /\ UNCHANGED <<unitVars, otherVars, inputVars, retryCount, rawResponse, parsedResponse, validationErrors,
                 fallbackComments, error, envelope, histVars, jobVars>>

\* EnhancedAIReviewService after the loop: filter, build the envelope, return
EnhancedFilterAndReturn ==
  /\ svc = "openrouter" /\ pc = "filter"
  /\ LET source == IF parsedResponse # JNull THEN parsedResponse.comments
                   ELSE fallbackComments
     IN \E thresholdsOk \in BOOLEAN, configOk \in BOOLEAN,
           draws \in [1..Len(source) -> RandomValues] :
          LET finalComments ==
                IF Len(source) = 0 /\ parsedResponse = JNull THEN <<>>
                ELSE filterComments(source, repoConfig, thresholdsOk,
                                    configOk, draws)
          IN /\ envelope' = EnhancedEnvelope(Locals, retryCount, finalComments)
             /\ filterOutput' = finalComments
  /\ pc' = "returned"
  /\ UNCHANGED <<unitVars, otherVars, inputVars, loopVars, jobVars, calls, rateLimitRetries,
                 lastFailure, lastStatus, allUnparseable, waitLog>>

(***************************************************************************)
(* Actions of PRReviewQueue.performPRReview ('opened' / 'synchronize')     *)
(***************************************************************************)
HasReview(env) ==
  env.response.parsed # JNull \/ Len(env.response.fallbackComments) > 0

StoredSummary ==
  IF action = "opened" THEN "AI review completed with validation issues"
  ELSE "Updated AI review completed with validation issues"

PostedSummary ==
  IF action = "opened"
  THEN "AI review completed with validation issues - manual review recommended"
  ELSE "Updated AI review completed with validation issues - manual review recommended"

ReviewData(env, summary) ==
  IF env.response.parsed # JNull
  THEN [summary |-> env.response.parsed.summary,
        comments |-> env.response.parsed.comments]
  ELSE [summary |-> summary, comments |-> env.response.fallbackComments]

\* AIReview.create and the $push onto the pull request's aiReviews
JobStore ==
  /\ svc = "openrouter" /\ pc = "returned" /\ jobPc = "review"
  /\ aiReviews' = IF HasReview(envelope)
                  THEN Append(aiReviews,
                         [review |-> ReviewData(envelope, StoredSummary),
                          status |-> IF envelope.metadata.success
                                     THEN "completed" ELSE "failed"])
                  ELSE aiReviews
  /\ jobPc' = "post"
  /\ UNCHANGED <<unitVars, otherVars, inputVars, pc, loopVars, envelope, histVars, posted>>

\* postStructuredAIReviewToGitHub succeeds (or is skipped)
JobPost ==
  /\ jobPc = "post"
  /\ posted' = IF HasReview(envelope)
               THEN Append(posted, ReviewData(envelope, PostedSummary))
               ELSE posted
  /\ jobPc' = "completed"
  /\ UNCHANGED <<unitVars, otherVars, inputVars, pc, loopVars, envelope, histVars, aiReviews>>

\* postStructuredAIReviewToGitHub throws
JobPostFails ==
  /\ jobPc = "post"
  /\ HasReview(envelope)
  /\ jobPc' = "failed"
  /\ UNCHANGED <<unitVars, otherVars, inputVars, pc, loopVars, envelope, histVars, aiReviews, posted>>

\* generateEnhancedReview threw: the job fails
JobThrown ==
  /\ svc = "openrouter" /\ pc = "thrown" /\ jobPc = "review"
  /\ jobPc' = "failed"
  /\ UNCHANGED <<unitVars, otherVars, inputVars, pc, loopVars, envelope, histVars, aiReviews, posted>>

Next ==
  \/ Preflight
  \/ GeminiContent
  \/ GeminiEmptyContent
  \/ GeminiTimeout
  \/ GeminiApiError
  \/ EnhancedContent
  \/ EnhancedEmptyContent
  \/ EnhancedTimeout
  \/ EnhancedApiError
  \/ DelayElapsed
  \/ EnhancedFilterAndReturn
  \/ JobStore
  \/ JobPost
  \/ JobPostFails
  \/ JobThrown

Spec == Init /\ [][Next]_vars

\* the steps of generateEnhancedReview itself
InvocationStep ==
  \/ Preflight
  \/ GeminiContent
  \/ GeminiEmptyContent
  \/ GeminiTimeout
  \/ GeminiApiError
  \/ EnhancedContent
  \/ EnhancedEmptyContent
  \/ EnhancedTimeout
  \/ EnhancedApiError
  \/ DelayElapsed
  \/ EnhancedFilterAndReturn

\* the invocation has not returned or thrown yet
InvocationPending == pc \in {"preflight", "request", "delay", "filter"}

\* a step of the invocation as seen on pc: every step of InvocationStep
\* changes pc, and one is possible in every pending state
InvocationMoves ==
  /\ InvocationPending
  /\ pc' \in {"request", "delay", "filter", "returned", "thrown"}
  /\ pc' # pc

\* one invocation on its own, for one pull request and one repository
LiveInit ==
  /\ Init
  /\ prContext = [changedFiles |-> <<FileApp>>]
  /\ svc = "openrouter" =>
       action = "opened" /\ repoConfig.manualThresholds.maxCommentsPerReview = 1

\* every model call settles (content, error or timeout) and every backoff
\* wait elapses
LiveSpec == LiveInit /\ [][InvocationStep]_vars /\ WF_pc(InvocationMoves)


(***************************************************************************)
(* The review queue: pull-request events are processed one after another,  *)
(* a job whose processor throws is run again until JOB_ATTEMPTS runs are   *)
(* used.  generateEnhancedReview is taken as one step that delivers one of *)
(* the envelopes it can return.                                            *)
(***************************************************************************)
JOB_ATTEMPTS == 3
MaxEvents == 2

FreshLocals ==
  [raw |-> NoRaw, parsed |-> JNull, valErrs |-> "null", fallback |-> <<>>,
   err |-> "undefined", cont |-> FALSE, delay |-> 0, cause |-> "none", status |-> 0]

QueueResponses ==
  { Raw("json", DocCanonical, 400, TRUE, TRUE),
    Raw("json", DocBadTypes, 1500, TRUE, TRUE),
    Raw("nobrace", Absent, 40, FALSE, FALSE) }

\* envelopes of invocations that end at their first pass, or at their last
\* pass after MAX_RETRIES passes that failed validation
ReturnedEnvelopes(prCtx, config) ==
  LET ends == {[l |-> EnhancedOnContent(FreshLocals, a, raw, prCtx), a |-> a] :
                 raw \in QueueResponses, a \in {0, MAX_RETRIES}}
              \cup {[l |-> EnhancedOnError(FreshLocals, 0, "api", 401), a |-> 0]}
      final(e) ==
        LET source == IF e.l.parsed # JNull THEN e.l.parsed.comments ELSE e.l.fallback
        IN IF Len(source) = 0 /\ e.l.parsed = JNull THEN <<>>
           ELSE filterComments(source, config, TRUE, TRUE,
                               [i \in 1..Len(source) |-> 50])
  IN {EnhancedEnvelope(e.l, e.a, final(e)) : e \in {x \in ends : ~x.l.cont}}

QueueInit ==
  /\ svc = "openrouter"
  /\ action \in {"opened", "synchronize"}
  /\ repoConfig \in RepoConfigs
  /\ apiKeySet \in BOOLEAN
  /\ prContext = [changedFiles |-> <<FileApp>>]
  /\ pc = "idle"
  /\ attempt = 0 /\ retryCount = 0
  /\ rawResponse = NoRaw /\ parsedResponse = JNull
  /\ validationErrors = "null" /\ fallbackComments = <<>>
  /\ error = "undefined" /\ delayMs = 0
  /\ envelope = NoEnvelope
  /\ calls = 0 /\ rateLimitRetries = 0
  /\ lastFailure = "none" /\ lastStatus = 0
  /\ allUnparseable = TRUE /\ waitLog = <<>>
  /\ filterOutput = <<>>
  /\ jobPc = "waiting" /\ aiReviews = <<>> /\ posted = <<>>
  /\ call = NoCall
  /\ attemptsMade = 0 /\ eventNo = 1 /\ reviewsAtEventStart = 0
  /\ inflight = 0
  /\ BreakerInit
  /\ WebhookInit
  /\ TaskInit

\* the worker runs the job: processPRReviewJob up to the return (or throw)
\* of generateEnhancedReview
QueueRun ==
  /\ jobPc = "waiting" /\ attemptsMade < JOB_ATTEMPTS
  /\ attemptsMade' = attemptsMade + 1
  /\ jobPc' = "review"
  /\ IF apiKeySet
     THEN /\ pc' = "returned"
          /\ envelope' \in ReturnedEnvelopes(prContext, repoConfig)
     ELSE /\ pc' = "thrown"
          /\ envelope' = NoEnvelope
  /\ UNCHANGED <<unitVars, inputVars, loopVars, histVars, aiReviews, posted,
                 eventNo, reviewsAtEventStart, raceVars, serverVars>>

\* the queue schedules the failed job again
QueueRetry ==
  /\ jobPc = "failed" /\ attemptsMade < JOB_ATTEMPTS
  /\ jobPc' = "waiting"
  /\ pc' = "idle"
  /\ envelope' = NoEnvelope
  /\ UNCHANGED <<unitVars, inputVars, loopVars, histVars, aiReviews, posted,
                 queueVars, raceVars, serverVars>>

EventSettled ==
  jobPc = "completed" \/ (jobPc = "failed" /\ attemptsMade = JOB_ATTEMPTS)

\* the next pull-request event of the same pull request is enqueued
QueueNextEvent ==
  /\ EventSettled /\ eventNo >= 1 /\ eventNo < MaxEvents
  /\ eventNo' = eventNo + 1
  /\ action' \in {"opened", "synchronize"}
  /\ attemptsMade' = 0
  /\ reviewsAtEventStart' = Len(aiReviews)
  /\ jobPc' = "waiting"
  /\ pc' = "idle"
  /\ envelope' = NoEnvelope
  /\ UNCHANGED <<unitVars, svc, apiKeySet, prContext, repoConfig, loopVars, histVars,
                 aiReviews, posted, raceVars, serverVars>>

QueueNext ==
  \/ QueueRun
  \/ JobStore
  \/ JobPost
  \/ JobPostFails
  \/ JobThrown
  \/ QueueRetry
  \/ QueueNextEvent

QueueSpec == QueueInit /\ [][QueueNext]_vars

(***************************************************************************)
(* GeminiLLMService with the model request and its settlement as separate  *)
(* steps: Promise.race returns at the local timeout while the request goes *)
(* on.                                                                     *)
(***************************************************************************)
RaceResponses ==
  { Raw("json", DocCode, 300, TRUE, TRUE),
    Raw("json", DocBadTypes, 1500, TRUE, TRUE),
    Raw("nobrace", Absent, 40, FALSE, FALSE) }

RaceStatuses == {429, 500, 401}

RaceInit ==
  /\ svc = "gemini" /\ action = "none" /\ repoConfig = NoConfig
  /\ apiKeySet = TRUE
  /\ prContext = [changedFiles |-> <<FileApp>>]
  /\ pc = "preflight"
  /\ attempt = 0 /\ retryCount = 0
  /\ rawResponse = NoRaw /\ parsedResponse = JNull
  /\ validationErrors = "null" /\ fallbackComments = <<>>
  /\ error = "undefined" /\ delayMs = 0
  /\ envelope = NoEnvelope
  /\ calls = 0 /\ rateLimitRetries = 0
  /\ lastFailure = "none" /\ lastStatus = 0
  /\ allUnparseable = TRUE /\ waitLog = <<>>
  /\ filterOutput = <<>>
  /\ jobPc = "none" /\ aiReviews = <<>> /\ posted = <<>>
  /\ call = NoCall
  /\ attemptsMade = 0 /\ eventNo = 0 /\ reviewsAtEventStart = 0
  /\ inflight = 0
  /\ BreakerInit
  /\ WebhookInit
  /\ TaskInit

\* chat.completions.create(...) is called and Promise.race awaited
RaceIssue ==
  /\ svc = "gemini" /\ pc = "request"
  /\ pc' = "awaiting"
  /\ inflight' = inflight + 1
  /\ UNCHANGED <<unitVars, inputVars, loopVars, envelope, histVars, jobVars, queueVars,
                 serverVars>>

\* the request of this pass resolves with content
RaceContent ==
  /\ pc = "awaiting"
  /\ \E raw \in RaceResponses :
       EndAttempt(GeminiOnContent(Locals, attempt, raw, prContext))
  /\ inflight' = inflight - 1
  /\ UNCHANGED <<queueVars, serverVars>>

\* the request of this pass resolves without content
RaceEmptyContent ==
  /\ pc = "awaiting"
  /\ EndAttempt(GeminiOnError(Locals, attempt, "empty", 0))
  /\ inflight' = inflight - 1
  /\ UNCHANGED <<queueVars, serverVars>>

\* the request of this pass rejects with an APIError
RaceApiError ==
  /\ pc = "awaiting"
  /\ \E status \in RaceStatuses :
       EndAttempt(GeminiOnError(Locals, attempt, "api", status))
  /\ inflight' = inflight - 1
  /\ UNCHANGED <<queueVars, serverVars>>

\* variant: the request is aborted when the timer wins the race
RaceLocalTimeout_Aborts ==
  /\ pc = "awaiting"
  /\ EndAttempt(GeminiOnError(Locals, attempt, "timeout", 0))
  /\ inflight' = inflight - 1
  /\ UNCHANGED <<queueVars, serverVars>>

\* timeoutPromise rejects first: the pass ends, the request is not aborted
RaceLocalTimeout ==
  /\ pc = "awaiting"
  /\ EndAttempt(GeminiOnError(Locals, attempt, "timeout", 0))
  /\ inflight' = inflight
  /\ UNCHANGED <<queueVars, serverVars>>

\* a request whose pass has ended settles; nobody awaits its result
RaceAbandonedSettles ==
  /\ svc = "gemini"
  /\ inflight > (IF pc = "awaiting" THEN 1 ELSE 0)
  /\ inflight' = inflight - 1
  /\ UNCHANGED <<unitVars, inputVars, pc, loopVars, envelope, histVars, jobVars, queueVars,
                 serverVars>>

RaceNext ==
  \/ Preflight
  \/ RaceIssue
  \/ RaceContent
  \/ RaceEmptyContent
  \/ RaceApiError
  \/ RaceLocalTimeout
  \/ RaceAbandonedSettles
  \/ DelayElapsed

RaceSpec == RaceInit /\ [][RaceNext]_vars

(***************************************************************************)
(* The functions called on their own, over inputs of their parameter       *)
(* types; the orchestrator and the job are idle.                           *)
(***************************************************************************)
RECURSIVE Repeat(_, _)
Repeat(s, n) ==
  IF n = 0 THEN ""
  ELSE IF n % 2 = 0 THEN LET h == Repeat(s, n \div 2) IN h \o h
  ELSE s \o Repeat(s, n - 1)

\* ReviewComment values: two valid ones and one per way of being invalid
GoodComment ==
  [filePath |-> "src/app.ts", line |-> 5, severity |-> "critical",
   message |-> "SQL injection",
   rationale |-> "user input concatenated into query string without parameterization"]
PaddedComment ==
  [filePath |-> "README.md", line |-> 2, severity |-> "minor",
   message |-> " typo in heading ", rationale |-> "the heading misspells the project name ",
   suggestion |-> "  "]
ZeroLineComment == [GoodComment EXCEPT !.line = 0]
NoPathComment == [GoodComment EXCEPT !.filePath = ""]
BlankMessageComment == [GoodComment EXCEPT !.message = "  "]
BadSeverityComment == [GoodComment EXCEPT !.severity = "high"]
LongMessageComment == [GoodComment EXCEPT !.message = Repeat("x", 501)]
ShortRationaleComment == [GoodComment EXCEPT !.rationale = "nit"]

ReviewComments ==
  { GoodComment, PaddedComment, ZeroLineComment, NoPathComment, BlankMessageComment,
    BadSeverityComment, LongMessageComment, ShortRationaleComment }

\* comment lists of at most two comments
CommentLists ==
  {<<>>} \cup {<<c>> : c \in ReviewComments}
         \cup {<<c, d>> : c \in ReviewComments, d \in ReviewComments}

Summaries == {"", "   ", "ok", " Review of the login handler changes "}

\* StructuredAIReview | null
ParsedReviews ==
  {JNull} \cup {[summary |-> s, comments |-> cs] : s \in Summaries, cs \in CommentLists}

UnitInit ==
  /\ call = NoCall
  /\ svc = "none" /\ action = "none" /\ apiKeySet = FALSE
  /\ prContext = [changedFiles |-> <<>>]
  /\ repoConfig = NoConfig
  /\ pc = "idle"
  /\ attempt = 0 /\ retryCount = 0
  /\ rawResponse = NoRaw /\ parsedResponse = JNull
  /\ validationErrors = "null" /\ fallbackComments = <<>>
  /\ error = "undefined" /\ delayMs = 0
  /\ envelope = NoEnvelope
  /\ calls = 0 /\ rateLimitRetries = 0
  /\ lastFailure = "none" /\ lastStatus = 0
  /\ allUnparseable = TRUE /\ waitLog = <<>>
  /\ filterOutput = <<>>
  /\ jobPc = "none" /\ aiReviews = <<>> /\ posted = <<>>
  /\ attemptsMade = 0 /\ eventNo = 0 /\ reviewsAtEventStart = 0
  /\ inflight = 0
  /\ BreakerInit
  /\ WebhookInit
  /\ TaskInit

UnitIdle == UNCHANGED <<inputVars, pc, loopVars, envelope, histVars, jobVars, otherVars>>

CallPerformFinalValidation ==
  /\ call = NoCall
  /\ \E parsed \in ParsedReviews, fallback \in CommentLists :
       call' = [fn |-> "performFinalValidation",
                parsed |-> parsed, fallback |-> fallback,
                result |-> performFinalValidation(parsed, fallback)]
  /\ UnitIdle

\* changed files: paths by extension class, volumes around the thresholds
FilePaths == {"src/app.ts", "README.md", "Makefile", "src/Main.JAVA"}
Volumes ==
  { [additions |-> 0, deletions |-> 0], [additions |-> 20, deletions |-> 0],
    [additions |-> 11, deletions |-> 10], [additions |-> 100, deletions |-> 0],
    [additions |-> 60, deletions |-> 41], [additions |-> 200, deletions |-> 0],
    [additions |-> 150, deletions |-> 51] }
ChangedFiles ==
  {[path |-> p, additions |-> v.additions, deletions |-> v.deletions] :
     p \in FilePaths, v \in Volumes}
ChangedFileLists ==
  {<<>>} \cup {<<f>> : f \in ChangedFiles}
         \cup {<<f, g>> : f \in ChangedFiles, g \in ChangedFiles}

\* raw response texts by what the generator reads of them
RawTexts ==
  {NoRaw} \cup {Raw("nobrace", Absent, n, s, c) :
                  n \in {99, 100, 1000, 1001}, s \in BOOLEAN, c \in BOOLEAN}

CallGenerateFallbackComments ==
  /\ call = NoCall
  /\ \E raw \in RawTexts, files \in ChangedFileLists :
       call' = [fn |-> "generateFallbackComments",
                rawResponse |-> raw, changedFiles |-> files,
                result |-> GeminiGenerateFallbackComments(raw, [changedFiles |-> files])]
  /\ UnitIdle

\* candidates as AIReviewSchema delivers them
Candidates ==
  [filePath : {"", "src/app.ts", "lib/"},
   line : {-1, 0, 1, 5},
   suggestion : {"", "  ", " use a parameterized query ", Repeat("x", 501)},
   severity : {"low", "medium", "high"}]

CallValidateAndRepairComment ==
  /\ call = NoCall
  /\ \E comment \in Candidates :
       call' = [fn |-> "validateAndRepairComment",
                comment |-> comment,
                result |-> validateAndRepairComment(comment)]
  /\ UnitIdle

MajorComment ==
  [filePath |-> "src/db.ts", line |-> 40, severity |-> "major",
   message |-> "query inside a loop",
   rationale |-> "one round trip per row makes the handler slow on large tables"]

FilterPool == {GoodComment, MajorComment, PaddedComment}

\* lists of at most three comments, and one list longer than the default
\* maxCommentsPerReview
FilterInputs ==
  {<<>>} \cup {<<c>> : c \in FilterPool}
         \cup {<<c, d>> : c \in FilterPool, d \in FilterPool}
         \cup {<<c, d, e>> : c \in FilterPool, d \in FilterPool, e \in FilterPool}
         \cup {[i \in 1..(DefaultThresholds.maxCommentsPerReview + 1) |-> PaddedComment]}
         \* ten comments of each severity, interleaved, told apart by line
         \cup {[i \in 1..30 |->
                  [GoodComment EXCEPT !.line = i,
                                      !.severity = IF i % 3 = 0 THEN "critical"
                                                   ELSE IF i % 3 = 2 THEN "major"
                                                   ELSE "minor"]]}

\* the stored configurations, one with thresholds 0 and limit 15 and one
\* with thresholds 1 and limit 2
FilterConfigs ==
  RepoConfigs \cup
  { [enabledSeverities |-> {"critical", "major", "minor"},
     adaptiveThresholds |-> FALSE,
     manualThresholds |-> [ignoreMinorThreshold |-> 0, ignoreMajorThreshold |-> 0,
                           maxCommentsPerReview |-> 15],
     adaptive |-> [ignoreMinorThreshold |-> 70, ignoreMajorThreshold |-> 30]],
    [enabledSeverities |-> {"critical", "major", "minor"},
     adaptiveThresholds |-> FALSE,
     manualThresholds |-> [ignoreMinorThreshold |-> 100, ignoreMajorThreshold |-> 100,
                           maxCommentsPerReview |-> 2],
     adaptive |-> [ignoreMinorThreshold |-> 70, ignoreMajorThreshold |-> 30]] }

\* the Math.random() values of one call
DrawsFor(comments) ==
  IF Len(comments) <= 3 THEN [1..Len(comments) -> RandomValues]
  ELSE {[i \in 1..Len(comments) |-> r] : r \in RandomValues}

CallFilterComments ==
  /\ call = NoCall
  /\ \E comments \in FilterInputs, config \in FilterConfigs,
        thresholdsOk \in BOOLEAN, configOk \in BOOLEAN :
       \E draws \in DrawsFor(comments) :
         call' = [fn |-> "filterComments",
                  comments |-> comments, config |-> config,
                  thresholdsOk |-> thresholdsOk, configOk |-> configOk,
                  draws |-> draws,
                  \* finalComments after the loop (none when the lookup threw)
                  survivors |->
                    IF ~configOk THEN <<>>
                    ELSE LET thresholds == getEffectiveThresholds(config, thresholdsOk)
                         IN DropStep(SelectSeq(comments,
                                       LAMBDA c : c.severity \in thresholds.enabledSeverities),
                                     thresholds, draws),
                  result |-> filterComments(comments, config, thresholdsOk,
                                            configOk, draws)]
  /\ UnitIdle

CallExtractValidJson ==
  /\ call = NoCall
  /\ \E service \in {"gemini", "enhanced"}, response \in Responses :
       call' = [fn |-> "extractValidJson", service |-> service,
                response |-> response,
                stages |-> IF service = "gemini" THEN GeminiRecoveryStages(response)
                           ELSE [ran |-> <<>>, parsedAt |-> "none"],
                result |-> IF service = "gemini" THEN GeminiExtractValidJson(response)
                           ELSE EnhancedExtractValidJson(response)]
  /\ UnitIdle

\* getSeverityClassification(): the keywords of the critical and major tiers
CriticalKeywords ==
  {"security", "vulnerability", "security-issue", "bug", "error", "runtime-error",
   "null-pointer", "infinite-loop", "crash", "deadlock"}

MajorKeywords ==
  {"performance", "memory-leak", "optimization", "complexity", "maintainability",
   "code-smell", "technical-debt", "scalability", "reliability", "error-handling"}

classifySeverity(message, rationale) ==
  LET text == ToLowerCase(message \o " " \o rationale)
  IN IF \E keyword \in CriticalKeywords : Includes(text, keyword) THEN "critical"
     ELSE IF \E keyword \in MajorKeywords : Includes(text, keyword) THEN "major"
     ELSE "minor"

ClassifyMessages ==
  {"Missing error-handling", "SQL Security hole", "slow performance", "typo in name",
   "Possible Crash here", "needs optimization", "debug output left in",
   "unhandled Error", "high complexity"}

ClassifyRationales ==
  {"", "improves scalability", "two locks may deadlock", "easier to read"}

CallClassifySeverity ==
  /\ call = NoCall
  /\ \E message \in ClassifyMessages, rationale \in ClassifyRationales :
       call' = [fn |-> "classifySeverity",
                message |-> message, rationale |-> rationale,
                result |-> classifySeverity(message, rationale)]
  /\ UnitIdle

\* validateStructuredAIReviewData(data): the verdict and data as the function
\* leaves it (review is data itself; metadata is assigned when missing)
validateStructuredAIReviewData(data) ==
  LET valid == StructuredAIReviewSchemaOk(data)
  IN [isValid |-> valid,
      dataAfter |->
        IF valid /\ "metadata" \notin Keys(data)
        THEN [k \in DOMAIN data \cup {"metadata"} |->
                IF k = "metadata" THEN StructuredReviewOf(data).metadata ELSE data[k]]
        ELSE data]

CallValidate ==
  /\ call = NoCall
  /\ \/ \E response \in {r \in Responses : r.doc # Absent} :
          LET v == validateStructuredAIReviewData(response.doc)
          IN call' = [fn |-> "validateStructuredAIReviewData",
                      argument |-> response.doc, isValid |-> v.isValid,
                      argumentAfter |-> v.dataAfter]
     \/ \E review \in ParsedReviews \ {JNull} :
          LET v == validateStructuredReview(review)
          IN call' = [fn |-> "validateStructuredReview",
                      argument |-> review, isValid |-> v.isValid,
                      argumentAfter |-> v.reviewAfter]
  /\ UnitIdle

UnitNext ==
  \/ CallValidate
  \/ CallClassifySeverity
  \/ CallPerformFinalValidation
  \/ CallGenerateFallbackComments
  \/ CallValidateAndRepairComment
  \/ CallFilterComments
  \/ CallExtractValidJson

UnitSpec == UnitInit /\ [][UnitNext]_vars

(***************************************************************************)
(* Mem0Service: executeWithRetry, getClient, handleOperationError and      *)
(* resetCircuitBreaker.  An operation is withRetry around a call that      *)
(* first asks getClient() for the client.                                  *)
(***************************************************************************)
\* variant: the breaker opens at the first failure
OpensAt_FirstFailure(failures) == failures >= 1

\* this.circuitBreakerFailures >= this.circuitBreakerThreshold
OpensAt(failures) == failures >= circuitBreakerThreshold

History(nextState, step, sinceSuccess) ==
  /\ lastStep' = step
  /\ failuresSinceSuccess' = sinceSuccess
  /\ openedAt' = IF nextState = "open" /\ circuitBreakerState # "open"
                 THEN now ELSE openedAt
  /\ closedFrom' = IF nextState = "closed" /\ circuitBreakerState # "closed"
                   THEN circuitBreakerState ELSE closedFrom

\* one try of withRetry threw: wait and try again, or give up and run
\* handleOperationError
AttemptFailed(o, step) ==
  IF ops[o].attempt < defaultRetries
  THEN /\ ops' = [ops EXCEPT ![o] = [pc |-> "try", attempt |-> @.attempt + 1]]
       /\ UNCHANGED <<circuitBreakerState, circuitBreakerFailures,
                      circuitBreakerLastFailureTime>>
       /\ History(circuitBreakerState, step, failuresSinceSuccess)
  ELSE LET nextState == IF OpensAt(circuitBreakerFailures + 1) THEN "open"
                        ELSE circuitBreakerState
       IN /\ ops' = [ops EXCEPT ![o] = IdleOp]
          /\ circuitBreakerFailures' = circuitBreakerFailures + 1
          /\ circuitBreakerLastFailureTime' = now
          /\ circuitBreakerState' = nextState
          /\ History(nextState, step, failuresSinceSuccess + 1)

Mem0Idle ==
  UNCHANGED <<unitVars, inputVars, pc, loopVars, envelope, histVars, jobVars,
              queueVars, raceVars, webhookVars, taskVars>>

\* a public method calls executeWithRetry
OpStart(o) ==
  /\ ops[o].pc = "idle"
  /\ circuitBreakerFailures + Cardinality({x \in OpIds : ops[x].pc # "idle"}) < MaxFailures
  /\ ops' = [ops EXCEPT ![o] = [pc |-> "try", attempt |-> 0]]
  /\ History(circuitBreakerState, "start", failuresSinceSuccess)
  /\ UNCHANGED <<circuitBreakerState, circuitBreakerFailures,
                 circuitBreakerLastFailureTime, now>>
  /\ Mem0Idle

\* the operation calls getClient()
OpGetClient(o) ==
  /\ ops[o].pc = "try"
  /\ IF circuitBreakerState = "open"
        /\ now - circuitBreakerLastFailureTime < circuitBreakerTimeout
     THEN AttemptFailed(o, "reject")
     ELSE LET nextState == IF circuitBreakerState = "open" THEN "half-open"
                           ELSE circuitBreakerState
          IN /\ circuitBreakerState' = nextState
             /\ ops' = [ops EXCEPT ![o].pc = "calling"]
             /\ History(nextState, "admit", failuresSinceSuccess)
             /\ UNCHANGED <<circuitBreakerFailures, circuitBreakerLastFailureTime>>
  /\ UNCHANGED now
  /\ Mem0Idle

\* the client call resolves: withRetry returns
OpCallSucceeds(o) ==
  /\ ops[o].pc = "calling"
  /\ LET nextState == IF circuitBreakerState = "half-open" THEN "closed"
                      ELSE circuitBreakerState
     IN /\ circuitBreakerState' = nextState
        /\ circuitBreakerFailures' = IF circuitBreakerState = "half-open" THEN 0
                                     ELSE circuitBreakerFailures
        /\ History(nextState, "success", 0)
  /\ ops' = [ops EXCEPT ![o] = IdleOp]
  /\ UNCHANGED <<circuitBreakerLastFailureTime, now>>
  /\ Mem0Idle

\* the client call rejects or withTimeout fires
OpCallFails(o) ==
  /\ ops[o].pc = "calling"
  /\ AttemptFailed(o, "fail")
  /\ UNCHANGED now
  /\ Mem0Idle

ResetCircuitBreaker ==
  /\ circuitBreakerState' = "closed"
  /\ circuitBreakerFailures' = 0
  /\ circuitBreakerLastFailureTime' = 0
  /\ History("closed", "reset", 0)
  /\ UNCHANGED <<now, ops>>
  /\ Mem0Idle

\* time passes
Tick ==
  /\ now < MaxTicks * defaultTimeout
  /\ now' = now + defaultTimeout
  /\ lastStep' = "tick"
  /\ UNCHANGED <<circuitBreakerState, circuitBreakerFailures,
                 circuitBreakerLastFailureTime, ops, failuresSinceSuccess,
                 openedAt, closedFrom>>
  /\ Mem0Idle

Mem0Next ==
  \/ \E o \in OpIds : OpStart(o)
  \/ \E o \in OpIds : OpGetClient(o)
  \/ \E o \in OpIds : OpCallSucceeds(o)
  \/ \E o \in OpIds : OpCallFails(o)
  \/ ResetCircuitBreaker
  \/ Tick

Mem0Spec == UnitInit /\ [][Mem0Next]_vars

(***************************************************************************)
(* POST /webhook/github                                                    *)
(* One action per stretch of the handler between two awaited database or   *)
(* queue operations; the operation itself is atomic.                       *)
(***************************************************************************)
Signatures == {"valid", "wrong", "wrong-length", "missing"}
InstallationActions == {"created", "deleted", "suspend"}

\* timingSafeEqual throws when the two buffers differ in length
verifyWebhookSignature(signature) ==
  CASE signature = "missing" -> "false"
    [] signature = "wrong-length" -> "throws"
    [] signature = "wrong" -> "false"
    [] OTHER -> "true"

RECURSIVE JobsThrough(_)
JobsThrough(d) ==
  IF d = 0 THEN jobsEnqueued[0] ELSE jobsEnqueued[d] + JobsThrough(d - 1)

\* the days modelled lie in one month
TotalJobs == JobsThrough(MaxDay)

\* the response is sent; only the latest response sent is remembered
Respond(s, event, signature, status) ==
  reqs' = [t \in Slots |->
             IF t = s THEN [NoRequest EXCEPT !.pc = "done", !.event = event,
                                             !.signature = signature,
                                             !.status = status]
             ELSE IF reqs[t].pc = "done" THEN NoRequest
             ELSE reqs[t]]

Busy(s) == reqs[s].pc \notin {"none", "done"}

\* a delivery is handled in the first slot that is not busy
SlotFree(s) ==
  /\ ~Busy(s)
  /\ \A t \in Slots : t < s => Busy(t)

WebhookIdle ==
  UNCHANGED <<unitVars, inputVars, pc, loopVars, envelope, histVars, jobVars,
              queueVars, raceVars, breakerVars, taskVars>>

\* 'created' upserts the Installation record, 'deleted' removes it
handleInstallationEvent(s, signature, act, id) ==
  /\ installations' =
       CASE act = "created" ->
              [installations EXCEPT ![id] = IF @ = "absent" THEN "unlinked" ELSE @]
         [] act = "deleted" -> [installations EXCEPT ![id] = "absent"]
         [] OTHER -> installations
  /\ Respond(s, "installation", signature, 200)

\* an 'installation' delivery: the route hands it to handleInstallationEvent
DeliverInstallation(s) ==
  /\ SlotFree(s)
  /\ \E signature \in Signatures, act \in InstallationActions, id \in InstallationIds :
       handleInstallationEvent(s, signature, act, id)
  /\ UNCHANGED <<pullRequests, jobsEnqueued, monthlyUsageCount, dailyUsageCount,
                 dailyResetDate, today>>
  /\ WebhookIdle

\* a 'pull_request' delivery up to the usage check
DeliverPullRequest(s) ==
  /\ SlotFree(s)
  /\ TotalJobs + Cardinality({t \in Slots : Busy(t)}) < MaxJobs
  /\ \E signature \in Signatures :
       LET verified == verifyWebhookSignature(signature)
       IN CASE verified = "throws" -> Respond(s, "pull_request", signature, 500)
            [] verified = "false" -> Respond(s, "pull_request", signature, 401)
            [] OTHER ->
                 \E wellFormed \in BOOLEAN, id \in InstallationIds :
                   CASE ~wellFormed -> Respond(s, "pull_request", signature, 400)
                     [] installations[id] = "absent" ->
                          Respond(s, "pull_request", signature, 400)
                     [] installations[id] = "unlinked" ->
                          Respond(s, "pull_request", signature, 403)
                     [] OTHER ->
                          reqs' = [reqs EXCEPT ![s] = [NoRequest EXCEPT
                                     !.pc = "checkUsageLimits",
                                     !.event = "pull_request",
                                     !.signature = signature]]
  /\ UNCHANGED <<installations, pullRequests, jobsEnqueued, monthlyUsageCount,
                 dailyUsageCount, dailyResetDate, today>>
  /\ WebhookIdle

\* checkUsageLimits reads the User document and changes nothing
CheckUsageLimits(s) ==
  /\ reqs[s].pc = "checkUsageLimits"
  /\ LET dailyReset == dailyResetDate # today
         dailyCount == IF dailyReset THEN 0 ELSE dailyUsageCount
         allowed == monthlyUsageCount < 10 /\ dailyCount < 3
     IN IF ~allowed THEN Respond(s, "pull_request", reqs[s].signature, 429)
        ELSE \E hasRepoId \in BOOLEAN :
               IF ~hasRepoId THEN Respond(s, "pull_request", reqs[s].signature, 400)
               ELSE reqs' = [reqs EXCEPT ![s].pc = "PullRequest.findOneAndUpdate"]
  /\ UNCHANGED <<installations, pullRequests, jobsEnqueued, monthlyUsageCount,
                 dailyUsageCount, dailyResetDate, today>>
  /\ WebhookIdle

\* the PullRequest record of the payload's pull request is upserted
UpsertPullRequest(s) ==
  /\ reqs[s].pc = "PullRequest.findOneAndUpdate"
  /\ pullRequests' = pullRequests \cup {1}
  /\ reqs' = [reqs EXCEPT ![s].pc = "addJob"]
  /\ UNCHANGED <<installations, jobsEnqueued, monthlyUsageCount, dailyUsageCount,
                 dailyResetDate, today>>
  /\ WebhookIdle

\* queue.add with jobId: a job whose id is already in the queue is not added again
AddJob(s) ==
  /\ reqs[s].pc = "addJob"
  /\ \E fresh \in BOOLEAN :
       /\ ~fresh => TotalJobs > 0
       /\ jobsEnqueued' = IF fresh THEN [jobsEnqueued EXCEPT ![today] = @ + 1]
                          ELSE jobsEnqueued
  /\ reqs' = [reqs EXCEPT ![s].pc = "checkAndUpdateUsage"]
  /\ UNCHANGED <<installations, pullRequests, monthlyUsageCount, dailyUsageCount,
                 dailyResetDate, today>>
  /\ WebhookIdle

\* trackUsage: checkAndUpdateUsage loads the user and changes the loaded document
CheckAndUpdateUsage(s) ==
  /\ reqs[s].pc = "checkAndUpdateUsage"
  /\ LET dailyReset == dailyResetDate # today
         daily == IF dailyReset THEN 0 ELSE dailyUsageCount
         within == monthlyUsageCount < USAGE_LIMITS_MONTHLY /\ daily < USAGE_LIMITS_DAILY
     IN reqs' = [reqs EXCEPT ![s] = [@ EXCEPT
                   !.pc = "save",
                   !.daily = IF within THEN daily + 1 ELSE daily,
                   !.monthly = IF within THEN monthlyUsageCount + 1
                               ELSE monthlyUsageCount,
                   !.resetDate = today,
                   !.modified = (IF within THEN {"dailyUsageCount", "monthlyUsageCount"}
                                 ELSE {})
                                \cup (IF dailyReset
                                      THEN {"dailyUsageCount", "dailyResetDate"}
                                      ELSE {})]]
  /\ UNCHANGED <<installations, pullRequests, jobsEnqueued, monthlyUsageCount,
                 dailyUsageCount, dailyResetDate, today>>
  /\ WebhookIdle

\* user.save() writes the paths modified on the loaded document
SaveUser(s) ==
  /\ reqs[s].pc = "save"
  /\ dailyUsageCount' = IF "dailyUsageCount" \in reqs[s].modified THEN reqs[s].daily
                        ELSE dailyUsageCount
  /\ monthlyUsageCount' = IF "monthlyUsageCount" \in reqs[s].modified
                          THEN reqs[s].monthly ELSE monthlyUsageCount
  /\ dailyResetDate' = IF "dailyResetDate" \in reqs[s].modified THEN reqs[s].resetDate
                       ELSE dailyResetDate
  /\ Respond(s, "pull_request", reqs[s].signature, 200)
  /\ UNCHANGED <<installations, pullRequests, jobsEnqueued, today>>
  /\ WebhookIdle

\* midnight passes
NextDay ==
  /\ today < MaxDay
  /\ today' = today + 1
  /\ UNCHANGED <<installations, pullRequests, jobsEnqueued, monthlyUsageCount,
                 dailyUsageCount, dailyResetDate, reqs>>
  /\ WebhookIdle

WebhookNext ==
  \/ \E s \in Slots : DeliverInstallation(s)
  \/ \E s \in Slots : DeliverPullRequest(s)
  \/ \E s \in Slots : CheckUsageLimits(s)
  \/ \E s \in Slots : UpsertPullRequest(s)
  \/ \E s \in Slots : AddJob(s)
  \/ \E s \in Slots : CheckAndUpdateUsage(s)
  \/ \E s \in Slots : SaveUser(s)
  \/ NextDay

WebhookSpec == UnitInit /\ [][WebhookNext]_vars

(***************************************************************************)
(* PRReviewQueue worker: processPRReviewJob and its QueueTask record       *)
(* Jobs are enqueued after their PullRequest record is stored, so findOne  *)
(* finds it; there is one QueueTask record per pull request.               *)
(***************************************************************************)
TaskIdle ==
  UNCHANGED <<unitVars, inputVars, pc, loopVars, envelope, histVars, jobVars,
              queueVars, raceVars, breakerVars, webhookVars>>

\* the worker takes a job of pull request p and finds its PullRequest record
TakeJob(w, p) ==
  /\ workers[w].pc = "idle"
  /\ \A v \in WorkerIds : v < w => workers[v].pc # "idle"
  /\ workers' = [workers EXCEPT ![w] = [pc |-> "QueueTask.findOneAndUpdate",
                                        prNumber |-> p]]
  /\ UNCHANGED queueTasks
  /\ TaskIdle

\* the record of the pull request is created or set back to 'processing'
UpsertQueueTask(w) ==
  /\ workers[w].pc = "QueueTask.findOneAndUpdate"
  /\ queueTasks' = [queueTasks EXCEPT ![workers[w].prNumber] = "processing"]
  /\ workers' = [workers EXCEPT ![w].pc = "performPRReview"]
  /\ TaskIdle

\* performPRReview returns or throws
ReviewSettles(w, outcome) ==
  /\ workers[w].pc = "performPRReview"
  /\ workers' = [workers EXCEPT ![w].pc = outcome]
  /\ UNCHANGED queueTasks
  /\ TaskIdle

\* QueueTask.findByIdAndUpdate with the job's outcome; a failed job rethrows
WriteTaskStatus(w) ==
  /\ workers[w].pc \in {"completed", "failed"}
  /\ queueTasks' = [queueTasks EXCEPT ![workers[w].prNumber] = workers[w].pc]
  /\ workers' = [workers EXCEPT ![w] = IdleWorker]
  /\ TaskIdle

TaskNext ==
  \/ \E w \in WorkerIds, p \in PRNumbers : TakeJob(w, p)
  \/ \E w \in WorkerIds : UpsertQueueTask(w)
  \/ \E w \in WorkerIds, outcome \in {"completed", "failed"} : ReviewSettles(w, outcome)
  \/ \E w \in WorkerIds : WriteTaskStatus(w)

TaskSpec == UnitInit /\ [][TaskNext]_vars




(***************************************************************************)
(* Properties                                                              *)
(***************************************************************************)
Returned == pc = "returned"
LoopLeft == pc \in {"filter", "returned"}
GeminiReturned == svc = "gemini" /\ Returned

UsableComment(c) ==
  /\ c.filePath # ""
  /\ c.line >= 1
  /\ c.severity \in {"critical", "major", "minor"}
  /\ c.message # ""
  /\ c.rationale # ""

\* C1: every envelope GeminiLLMService returns carries a non-null parsed
\* review with at least one comment, and each comment has a non-empty
\* filePath, line >= 1, a severity of the enum and non-empty message and
\* rationale, whatever the model delivered on the way.
C1_ResultAlwaysUsable ==
  GeminiReturned =>
    /\ envelope.response.parsed # JNull
    /\ Len(envelope.response.parsed.comments) >= 1
    /\ \A i \in 1..Len(envelope.response.parsed.comments) :
         UsableComment(envelope.response.parsed.comments[i])

C1_Witness ==
  /\ GeminiReturned
  /\ calls = MAX_RETRIES + 1
  /\ lastFailure = "parse"
  /\ envelope.metadata.fallbackUsed

\* C2 (as claimed): every envelope EnhancedAIReviewService returns to the
\* job runner holds a parsed review or fallback comments, so that a job
\* that completes has posted a review to GitHub.
C2_ReviewAlwaysPosted ==
  (svc = "openrouter" /\ Returned) =>
    /\ HasReview(envelope)
    /\ (jobPc = "completed" => Len(posted) = 1)

C4_DegradedEnvelope ==
  (GeminiReturned /\ parsedResponse = JNull) =>
    /\ envelope.metadata.success = FALSE
    /\ Len(envelope.response.fallbackComments) >= 1

C4_Witness ==
  /\ GeminiReturned /\ parsedResponse = JNull
  /\ calls = MAX_RETRIES + 1
  /\ lastFailure = "api" /\ lastStatus = 503

\* one comment per distinct changed file path, in the order of the paths
OnePerChangedFile(comments) ==
  LET uniqueFiles == UniquePaths(prContext.changedFiles, {})
  IN /\ Len(comments) = Len(uniqueFiles)
     /\ \A i \in 1..Len(comments) : comments[i].filePath = uniqueFiles[i]

\* C5 (as claimed): when the last attempt fails by JSON parse failure or
\* by schema-validation failure, the envelope's fallbackComments hold
\* exactly one comment per distinct changed file path (PR with >= 1 file).
C5_FallbackPerFile ==
  (Returned /\ lastFailure \in {"parse", "validation"}
     /\ Len(prContext.changedFiles) >= 1) =>
    OnePerChangedFile(envelope.response.fallbackComments)

\* C6 (as claimed): the wait after a parse failure or a validation
\* failure at attempt index i is 3000 * 2^min(i,3) ms, never above 24000.
C6_GenericBackoffCapped ==
  (pc = "delay" /\ lastFailure \in {"parse", "validation"}) =>
    /\ delayMs = 3000 * Pow2(Min(attempt, 3))
    /\ delayMs <= 24000

\* C7 (as claimed): an HTTP 429 is left unretried only after 5 rate-limit
\* retries, and a parse/validation failure is left unretried only after
\* the calls that were not rate-limit retries used the budget of 8.
C7_IndependentRateLimitCounter ==
  /\ (LoopLeft /\ lastFailure = "api" /\ lastStatus = 429) =>
       rateLimitRetries >= 5
  /\ (LoopLeft /\ lastFailure \in {"parse", "validation"}) =>
       calls - rateLimitRetries >= 8

\* C8: three HTTP 429 answers followed by a schema-valid fourth response:
\* the waits are 8000, 16000 and 32000 ms, four calls are issued and the
\* envelope has retryCount = 3.
C8_RateLimitScenario ==
  (Returned /\ rateLimitRetries = 3 /\ attempt = 3 /\ lastFailure = "none") =>
    /\ waitLog = <<8000, 16000, 32000>>
    /\ calls = 4
    /\ envelope.response.retryCount = 3

C8_Witness ==
  /\ Returned /\ rateLimitRetries = 3 /\ attempt = 3 /\ lastFailure = "none"
  /\ parsedResponse # JNull

ServerError == lastFailure = "api" /\ lastStatus \in {500, 502, 503}

\* C9: after an attempt at index i ends with HTTP 500/502/503, with a
\* parse failure or with a validation failure, it is retried exactly when
\* i < 8 (one counter, one limit), and the wait before the retry of a
\* server error is 3000 * 2^min(i,3) ms.
C9_ServerErrorsShareBudget ==
  /\ ((ServerError \/ lastFailure \in {"parse", "validation"}) /\ pc # "request") =>
       (pc = "delay" <=> attempt < 8)
  /\ (ServerError /\ pc = "delay") => delayMs = 3000 * Pow2(Min(attempt, 3))

C9_Witness ==
  /\ ServerError /\ lastStatus = 502
  /\ pc = "delay" /\ attempt = 5 /\ delayMs = 24000

FatalApiError == lastFailure = "api" /\ lastStatus \notin {429, 500, 502, 503}

\* C10: after a model call fails with an HTTP status other than 429, 500,
\* 502 and 503 the invocation has left the loop without a backoff wait,
\* and no step after it issues a model call or starts a wait.
C10_FatalErrorStops ==
  /\ [](FatalApiError => (LoopLeft /\ delayMs = 0))
  /\ [][FatalApiError => (calls' = calls /\ waitLog' = waitLog /\ delayMs' = 0)]_vars

C10_Witness ==
  /\ FatalApiError /\ lastStatus = 401
  /\ Returned /\ attempt = 2 /\ calls = 3 /\ Len(waitLog) = 2

\* the same finding: place, severity and text agree
SameFinding(c, d) ==
  /\ c.filePath = d.filePath
  /\ c.line = d.line
  /\ c.severity = d.severity
  /\ Trim(c.message) = Trim(d.message)

\* s is t with some comments left out, the rest in their order
RECURSIVE IsSubsequence(_, _)
IsSubsequence(s, t) ==
  IF s = <<>> THEN TRUE
  ELSE IF t = <<>> THEN FALSE
  ELSE IF SameFinding(Head(s), Head(t)) THEN IsSubsequence(Tail(s), Tail(t))
  ELSE IsSubsequence(s, Tail(t))

\* the envelope's review is the review the successful attempt produced
\* (comments possibly thinned out by the repository filter)
CarriesReviewOf(env, review) ==
  /\ env.response.parsed # JNull
  /\ Trim(env.response.parsed.summary) = Trim(review.summary)
  /\ IsSubsequence(env.response.parsed.comments, review.comments)

SucceededAttempt == calls > 0 /\ lastFailure = "none"

C12_NeverThrowsAfterPreflight ==
  /\ (svc = "gemini" /\ (apiKeySet \/ calls > 0)) => pc # "thrown"
  /\ (svc = "gemini" /\ calls > 0 /\ pc \notin {"request", "delay"}) =>
       (Returned /\ envelope # NoEnvelope)
  /\ (GeminiReturned /\ lastFailure \in {"api", "timeout", "empty"}) =>
       envelope.metadata.error # "undefined"
  /\ (GeminiReturned /\ lastFailure \in {"parse", "validation"}) =>
       envelope.response.validationErrors # "null"

C12_Witness ==
  /\ GeminiReturned /\ lastFailure = "timeout"
  /\ calls = MAX_RETRIES + 1
  /\ envelope.metadata.error = "API call timed out"
  /\ envelope.response.validationErrors = "null"

\* C13: with the API credential missing, generateEnhancedReview throws at
\* the pre-flight check: no model call is ever issued, no envelope is
\* returned, no fallback comments are generated, and the job stores and
\* posts nothing.
C13_MissingKeyThrows ==
  ~apiKeySet =>
    /\ pc \in {"preflight", "thrown"}
    /\ calls = 0
    /\ envelope = NoEnvelope
    /\ fallbackComments = <<>>
    /\ aiReviews = <<>> /\ posted = <<>>

C13_Witness ==
  /\ ~apiKeySet /\ pc = "thrown"
  /\ svc = "openrouter" /\ jobPc = "failed"

\* a comment as review validation accepts it
ValidComment(c) ==
  /\ c.filePath # ""
  /\ c.line >= 1
  /\ c.severity \in {"critical", "major", "minor"}
  /\ Len(c.message) >= 1 /\ Len(c.message) <= 500
  /\ Len(c.rationale) >= 10 /\ Len(c.rationale) <= 1000

ValidReview(r) ==
  /\ Len(r.summary) >= 10 /\ Len(r.summary) <= 2000
  /\ \A i \in 1..Len(r.comments) : ValidComment(r.comments[i])

\* C14 (as claimed): for every pair (parsed, fallback) the review that
\* performFinalValidation returns passes review validation: summary of
\* 10-2000 characters, every comment with non-empty filePath, line >= 1,
\* severity of the enum, message of 1-500 and rationale of 10-1000
\* characters.
C14_FinalReviewAlwaysValid ==
  call.fn = "performFinalValidation" => ValidReview(call.result.validatedResponse)

\* the per-comment checks of the final gate
PassesChecks(c) ==
  /\ c.filePath # ""
  /\ Trim(c.message) # ""
  /\ Trim(c.rationale) # ""
  /\ c.severity \in {"critical", "major", "minor"}
  /\ c.line >= 1

\* a passing comment as the gate returns it: message and rationale trimmed,
\* the suggestion trimmed or, when absent or blank, a copy of the message
Normalised(c) ==
  [filePath |-> c.filePath, line |-> c.line, severity |-> c.severity,
   message |-> Trim(c.message), rationale |-> Trim(c.rationale),
   suggestion |-> IF "suggestion" \in DOMAIN c /\ Trim(c.suggestion) # ""
                  THEN Trim(c.suggestion) ELSE c.message]

GateOnParsed ==
  /\ call.fn = "performFinalValidation"
  /\ call.parsed # JNull
  /\ call.parsed.summary # ""

\* C15 (as claimed): for a non-null parsed review with a non-empty summary,
\* the comments returned with fallbackUsed = FALSE are exactly the comments
\* of parsed that pass the per-comment checks, in their order and
\* unchanged; when no comment passes, fallbackUsed = TRUE.
C15_PassingCommentsKeptExactly ==
  GateOnParsed =>
    LET passing == SelectSeq(call.parsed.comments, PassesChecks)
    IN /\ ~call.result.fallbackUsed =>
            call.result.validatedResponse.comments = passing
       /\ passing = <<>> => call.result.fallbackUsed

\* C15 (amended): for a non-null parsed review with a non-empty summary,
\* the comments returned with fallbackUsed = FALSE are the comments of
\* parsed that pass the per-comment checks, all of them and in their order,
\* with filePath, line and severity unchanged, message and rationale
\* trimmed and the suggestion trimmed or, when absent or blank, set to the
\* message; fallbackUsed is TRUE exactly when no comment passes or the
\* summary is blank.
C15_PassingCommentsKeptNormalised ==
  GateOnParsed =>
    LET passing == SelectSeq(call.parsed.comments, PassesChecks)
    IN /\ ~call.result.fallbackUsed =>
            call.result.validatedResponse.comments =
              [i \in 1..Len(passing) |-> Normalised(passing[i])]
       /\ call.result.fallbackUsed <=>
            (passing = <<>> \/ Trim(call.parsed.summary) = "")

C15_Witness ==
  /\ GateOnParsed
  /\ call.parsed.comments = <<ZeroLineComment, PaddedComment>>
  /\ ~call.result.fallbackUsed
  /\ Len(call.result.validatedResponse.comments) = 1
  /\ call.result.validatedResponse.comments[1].message = "typo in heading"

FallbackCall == call.fn = "generateFallbackComments"

\* C16: generateFallbackComments returns, for every raw response, one
\* comment for each distinct path of a non-empty changedFiles list and no
\* other comment (so between 1 and changedFiles.length comments), and for
\* an empty list exactly one comment, with filePath 'unknown'.
C16_OneCommentPerDistinctPath ==
  FallbackCall =>
    LET files == call.changedFiles
        paths == {files[i].path : i \in 1..Len(files)}
        result == call.result
    IN IF files = <<>>
       THEN Len(result) = 1 /\ result[1].filePath = "unknown"
       ELSE /\ Len(result) = Cardinality(paths)
            /\ Len(result) >= 1 /\ Len(result) <= Len(files)
            /\ \A p \in paths :
                 Cardinality({i \in 1..Len(result) : result[i].filePath = p}) = 1

C16_Witness ==
  /\ FallbackCall
  /\ Len(call.changedFiles) = 2
  /\ call.changedFiles[1].path = call.changedFiles[2].path
  /\ call.changedFiles[1].additions # call.changedFiles[2].additions
  /\ Len(call.result) = 1
  /\ call.rawResponse.length = 1001

\* the changed file a fallback comment is about (the first with its path)
FileOfComment(c) ==
  LET files == call.changedFiles
  IN files[CHOOSE i \in 1..Len(files) :
             files[i].path = c.filePath /\ \A j \in 1..(i - 1) : files[j].path # c.filePath]

ExtensionOf(path) == ToLowerCase(LastPart(LastPart(path, "/"), "."))

\* the severity rule as stated: volume and extension tier
TierSeverity(file) ==
  LET total == file.additions + file.deletions
      highRisk == ExtensionOf(file.path) \in
                    {"ts", "tsx", "js", "jsx", "py", "java", "go", "rs"}
  IN IF highRisk /\ total > 100 THEN "critical"
     ELSE IF highRisk /\ total > 20 THEN "major"
     ELSE IF total > 200 THEN "major"
     ELSE "minor"

\* C17 (as claimed): for every raw response the severity of the fallback
\* comment of a file is given by the file's changed-line total and its
\* extension alone, by the tier rule.
C17_SeverityByVolumeAndExtension ==
  (FallbackCall /\ call.changedFiles # <<>>) =>
    \A i \in 1..Len(call.result) :
      call.result[i].severity = TierSeverity(FileOfComment(call.result[i]))

\* C17 (amended): the severity follows the tier rule when the raw response
\* has at least 100 characters and is not a long partial answer; for a raw
\* response longer than 1000 characters that mentions "summary" or
\* "comments" it is major if the file has more than 50 additions or more
\* than 50 deletions and minor otherwise; for any other raw response
\* shorter than 100 characters it is major.
C17_SeverityByResponseAndVolume ==
  (FallbackCall /\ call.changedFiles # <<>>) =>
    \A i \in 1..Len(call.result) :
      LET raw == call.rawResponse
          file == FileOfComment(call.result[i])
      IN call.result[i].severity =
           IF raw.length > 1000 /\ (raw.hasSummaryKey \/ raw.hasCommentsKey)
           THEN (IF file.additions > 50 \/ file.deletions > 50 THEN "major" ELSE "minor")
           ELSE IF raw.length < 100 THEN "major"
           ELSE TierSeverity(file)

C17_Witness ==
  /\ FallbackCall
  /\ call.rawResponse.length = 1000 /\ call.rawResponse.hasSummaryKey
  /\ Len(call.changedFiles) = 2 /\ Len(call.result) = 2
  /\ call.changedFiles[1] = [path |-> "src/Main.JAVA", additions |-> 60, deletions |-> 41]
  /\ call.changedFiles[2] = [path |-> "README.md", additions |-> 150, deletions |-> 51]
  /\ call.result[1].severity = "critical"
  /\ call.result[2].severity = "major"

RepairCall == call.fn = "validateAndRepairComment"

\* C18 (as claimed): for every candidate the lenient schema accepts,
\* validateAndRepairComment returns a comment that passes comment
\* validation (suggestion of at most 2000 characters included), with the
\* severity mapped high -> critical, medium -> major, low -> minor, and
\* with a generated message naming the severity's kind of issue when the
\* candidate carries no text.
C18_RepairedCommentValid ==
  RepairCall =>
    /\ ValidComment(call.result)
    /\ Len(call.result.suggestion) <= 2000
    /\ call.result.severity =
         (CASE call.comment.severity = "high" -> "critical"
            [] call.comment.severity = "medium" -> "major"
            [] call.comment.severity = "low" -> "minor")
    /\ Trim(call.comment.suggestion) = "" =>
         \E kind \in {"Critical issue detected in ",
                      "Major improvement opportunity identified in ",
                      "Minor code quality improvement suggested for "} :
           SubSeq(call.result.message, 1, Len(kind)) = kind

\* the comments of the document the model returned
ModelComments ==
  IF IsArr(Prop(rawResponse.doc, "comments")) THEN rawResponse.doc.comments.a ELSE <<>>

\* C19 (as claimed): when the review of the envelope is the model's own
\* (not the fallback review), each of its comments is a comment of the
\* model's document with the same filePath and line, both valid: a comment
\* with a line below 1 or an empty filePath is absent, not present with
\* the field replaced by a default.
C19_InvalidCommentsNotCoerced ==
  (Returned /\ SucceededAttempt
     /\ rawResponse.form \in {"json", "fenced", "repairable"}
     /\ (svc = "gemini" => ~envelope.metadata.fallbackUsed)) =>
    \A i \in 1..Len(envelope.response.parsed.comments) :
      LET c == envelope.response.parsed.comments[i]
      IN \E j \in 1..Len(ModelComments) :
           LET m == ModelComments[j]
           IN /\ IsStr(Prop(m, "filePath")) /\ m.filePath.s # ""
              /\ IsNum(Prop(m, "line")) /\ m.line.n >= 1
              /\ c.filePath = m.filePath.s
              /\ c.line = m.line.n

FilterCall == call.fn = "filterComments"

\* the limit and the severities in force for a call: those of the stored
\* configuration, or the defaults (20, every severity) when the lookup of
\* the thresholds failed
LimitInForce == IF call.thresholdsOk THEN call.config.manualThresholds.maxCommentsPerReview
                ELSE 20
SeveritiesInForce == IF call.thresholdsOk THEN call.config.enabledSeverities
                     ELSE {"critical", "major", "minor"}

\* C20 (as claimed): for every input list, configuration and outcome of
\* the configuration lookups, the list filterComments returns is no longer
\* than min(input length, maxCommentsPerReview) and holds no comment whose
\* severity is not enabled.
C20_FilterBounds ==
  FilterCall =>
    /\ Len(call.result) <= Len(call.comments)
    /\ Len(call.result) <= LimitInForce
    /\ \A i \in 1..Len(call.result) : call.result[i].severity \in SeveritiesInForce

\* a call of filterComments whose configuration lookups succeeded
FilterRan == FilterCall /\ call.configOk

CountOf(seq, sev) == Cardinality({i \in 1..Len(seq) : seq[i].severity = sev})

\* the critical comments of seq, in their order
CriticalOf(seq) == SelectSeq(seq, LAMBDA c : c.severity = "critical")

\* C21: the drop step never removes a critical comment: for all thresholds
\* and draws, when critical is enabled every critical comment of the input
\* is among the comments that reach truncation, and all of them are in the
\* output when their number does not exceed maxCommentsPerReview.
C21_CriticalNeverDropped ==
  (FilterRan /\ "critical" \in SeveritiesInForce) =>
    /\ CriticalOf(call.survivors) = CriticalOf(call.comments)
    /\ CountOf(call.comments, "critical") <= LimitInForce =>
         CriticalOf(call.result) = CriticalOf(call.comments)

C21_Witness ==
  /\ FilterRan
  /\ Len(call.comments) = 3 /\ CountOf(call.comments, "critical") = 1
  /\ call.comments[3].severity = "critical"
  /\ \A i \in 1..3 : call.draws[i] = 50
  /\ LimitInForce = 1
  /\ Len(call.survivors) = 3
  /\ call.result = <<call.comments[3]>>

RankOf(c) ==
  CASE c.severity = "critical" -> 3 [] c.severity = "major" -> 2 [] OTHER -> 1

\* seq ordered by rank, highest first, equal ranks in the order of seq
ByRankStable(seq) ==
  SelectSeq(seq, LAMBDA c : RankOf(c) = 3)
    \o SelectSeq(seq, LAMBDA c : RankOf(c) = 2)
    \o SelectSeq(seq, LAMBDA c : RankOf(c) = 1)

\* C22: when more comments survive the drop step than
\* maxCommentsPerReview allows, the output is the first
\* maxCommentsPerReview survivors in the order of severity rank, highest
\* first, comments of equal rank in their original order; ten critical,
\* ten major and ten minor survivors with limit 15 give the ten critical
\* comments followed by the first five major ones.
C22_TruncationBySeverityRank ==
  (FilterRan /\ Len(call.survivors) > LimitInForce) =>
    /\ call.result = SubSeq(ByRankStable(call.survivors), 1, LimitInForce)
    /\ (Len(call.survivors) = 30 /\ LimitInForce = 15) =>
         /\ \A i \in 1..10 : call.result[i] = call.comments[3 * i]
         /\ \A i \in 1..5 : call.result[10 + i] = call.comments[3 * i - 1]

C22_Witness ==
  /\ FilterRan
  /\ Len(call.comments) = 30 /\ Len(call.survivors) = 30
  /\ LimitInForce = 15
  /\ Len(call.result) = 15
  /\ call.result[1].line = 3 /\ call.result[11].line = 2

\* C23 (as claimed): with a threshold of 0 no minor (major) comment is
\* removed by the drop step whatever value in [0, 1) the random source
\* returns, 0 included; with a threshold of 1 every one is removed.
C23_ThresholdEndpoints ==
  FilterRan =>
    LET thresholds == getEffectiveThresholds(call.config, call.thresholdsOk)
        enabledCount(sev) == IF sev \in SeveritiesInForce
                             THEN CountOf(call.comments, sev) ELSE 0
    IN /\ thresholds.ignoreMinorThreshold = 0 =>
            CountOf(call.survivors, "minor") = enabledCount("minor")
       /\ thresholds.ignoreMajorThreshold = 0 =>
            CountOf(call.survivors, "major") = enabledCount("major")
       /\ thresholds.ignoreMinorThreshold = 100 =>
            CountOf(call.survivors, "minor") = 0
       /\ thresholds.ignoreMajorThreshold = 100 =>
            CountOf(call.survivors, "major") = 0

ExtractCall(service) == call.fn = "extractValidJson" /\ call.service = service

\* C25 (as claimed): for every input, extractValidJson of either service
\* returns null or a string that parses as JSON.
C25_ExtractedTextParses ==
  call.fn = "extractValidJson" =>
    call.result = NoJson \/ call.result.parses

\* C26 (as claimed): in GeminiLLMService.extractValidJson the stages run in
\* order, each only after the earlier ones failed; whenever cleanup and
\* repair do not produce parseable text, reconstruction runs and the
\* function returns a document with at least one comment, every comment
\* having filePath and line; this covers text without any brace.
C26_ReconstructionAlwaysDelivers ==
  ExtractCall("gemini") =>
    LET ran == call.stages.ran
        order == <<"cleanup", "repair", "reconstruct">>
    IN /\ Len(ran) <= 3 /\ ran = SubSeq(order, 1, Len(ran))
       /\ call.stages.parsedAt \in {"cleanup", "repair"} =>
            call.stages.parsedAt = ran[Len(ran)]
       /\ call.stages.parsedAt \notin {"cleanup", "repair"} =>
            /\ Len(ran) = 3
            /\ call.result # NoJson /\ call.result.parses
            /\ IsArr(Prop(call.result.doc, "comments"))
            /\ Len(call.result.doc.comments.a) >= 1
            /\ \A i \in 1..Len(call.result.doc.comments.a) :
                 LET c == call.result.doc.comments.a[i]
                 IN IsStr(Prop(c, "filePath")) /\ IsNum(Prop(c, "line"))

InSeq(x, seq) == \E i \in 1..Len(seq) : seq[i] = x

\* C24 (as claimed): every comment the job stores or posts for a review of
\* EnhancedAIReviewService is one of the comments filterComments returned in
\* that invocation, whether the review comes from the parsed response or
\* from the fallback comments.
C24_StoredAndPostedAreFiltered ==
  /\ \A r \in 1..Len(aiReviews) : \A i \in 1..Len(aiReviews[r].review.comments) :
       InSeq(aiReviews[r].review.comments[i], filterOutput)
  /\ \A r \in 1..Len(posted) : \A i \in 1..Len(posted[r].comments) :
       InSeq(posted[r].comments[i], filterOutput)

\* the same for reviews built from the parsed response alone
C24_ParsedPathFiltered ==
  envelope # NoEnvelope /\ svc = "openrouter" /\ envelope.response.parsed # JNull =>
    C24_StoredAndPostedAreFiltered

\* a first response that is the canonical one-comment review with summary 'ok'
ScenarioAFirstResponse ==
  /\ svc = "gemini" /\ pc = "request" /\ attempt = 0
  /\ rawResponse' = Raw("json", DocScenarioA, 180, TRUE, TRUE)

\* C27 (as claimed): a first response that is well-formed JSON with summary
\* 'ok' and one canonical comment (filePath, line, severity critical,
\* message, rationale; no code, no suggestion) is accepted on the first
\* attempt: validation succeeds, the parsed review has one comment, there
\* is no retry and retryCount is 0.
C27_ScenarioAAccepted ==
  [][ScenarioAFirstResponse =>
       /\ pc' = "returned"
       /\ validationErrors' = "null"
       /\ parsedResponse' # JNull
       /\ Len(parsedResponse'.comments) = 1
       /\ retryCount' = 0 /\ calls' = 1]_vars

\* C28 (as claimed): each 'opened' or 'synchronize' event leaves exactly one
\* AIReview record, also when the queue runs the job again after a failure;
\* records stored before are not changed or removed.
C28_OneRecordPerEvent ==
  /\ Len(aiReviews) - reviewsAtEventStart <= 1
  /\ (eventNo >= 1 /\ EventSettled) => Len(aiReviews) - reviewsAtEventStart = 1

\* the stored records only grow at the end
C28_StoredRecordsKept ==
  [][Len(aiReviews') >= Len(aiReviews)
       /\ SubSeq(aiReviews', 1, Len(aiReviews)) = aiReviews]_vars

\* C29 (as claimed): within one invocation of GeminiLLMService at most one
\* model request is outstanding at any time, also after a pass that ended
\* through the local timeout.
C29_OneRequestOutstanding == inflight <= 1

ClaimedCriticalKeywords ==
  {"security", "vulnerability", "bug", "crash", "deadlock", "null-pointer",
   "infinite-loop"}

ClaimedMajorKeywords ==
  {"performance", "memory-leak", "complexity", "error-handling", "scalability"}

ClassifiedText == ToLowerCase(call.message \o " " \o call.rationale)

HasKeyword(text, keywords) == \E k \in keywords : Includes(text, k)

\* C31 (as claimed): classifySeverity returns critical exactly when the
\* lower-cased text contains security, vulnerability, bug, crash, deadlock,
\* null-pointer or infinite-loop; otherwise major exactly when it contains
\* performance, memory-leak, complexity, error-handling or scalability;
\* otherwise minor.  A text whose only keyword is error-handling is major.
C31_ClassifyByKeywordTier ==
  call.fn = "classifySeverity" =>
    call.result =
      IF HasKeyword(ClassifiedText, ClaimedCriticalKeywords) THEN "critical"
      ELSE IF HasKeyword(ClassifiedText, ClaimedMajorKeywords) THEN "major"
      ELSE "minor"

ValidateCall == call.fn \in {"validateStructuredAIReviewData", "validateStructuredReview"}

\* C32 (as claimed): validateStructuredAIReviewData and the final gate's
\* validateStructuredReview leave their argument as it was, whatever the
\* verdict.
C32_ValidationLeavesArgument ==
  ValidateCall => call.argumentAfter = call.argument

\* C34 (as claimed): when the last attempt of an invocation produced a
\* schema-valid review that also passes the checks made before returning,
\* the envelope has metadata.success = true and metadata.error unset, also
\* when earlier attempts failed with an error that was retried.
C34_SuccessAfterRetriedError ==
  (pc = "returned" /\ lastFailure = "none"
     /\ envelope.metadata.schemaValidationPassed) =>
    /\ envelope.metadata.success
    /\ envelope.metadata.error = "undefined"

\* the same for invocations whose only attempt is the successful one
C34_SuccessAtFirstAttempt ==
  (pc = "returned" /\ lastFailure = "none" /\ calls = 1
     /\ envelope.metadata.schemaValidationPassed) =>
    /\ envelope.metadata.success
    /\ envelope.metadata.error = "undefined"

\* C35: an open or half-open breaker has counted at least five failures,
\* and 'closed' is entered only from 'half-open' after a successful
\* operation or through resetCircuitBreaker, with the failure count at 0.
C35_BreakerStateAndCount ==
  /\ [](circuitBreakerState \in {"open", "half-open"} =>
          circuitBreakerFailures >= 5)
  /\ [][(circuitBreakerState' = "closed" /\ circuitBreakerState # "closed") =>
          /\ circuitBreakerFailures' = 0
          /\ \/ circuitBreakerState = "half-open" /\ lastStep' = "success"
             \/ lastStep' = "reset"]_vars

C35_Witness ==
  /\ circuitBreakerState = "closed" /\ closedFrom = "half-open"
  /\ lastStep = "success"
  /\ circuitBreakerFailures = 0

\* the step in which an operation calls getClient()
GetClientStep == \E o \in OpIds : ops[o].pc = "try" /\ ops'[o] # ops[o]

\* C36 (as claimed): once the breaker is open, a call made 60000 ms or more
\* after the failure that opened it is admitted as a half-open trial,
\* however many calls were rejected in between.
C36_TrialAfterTimeout ==
  [][(GetClientStep /\ circuitBreakerState = "open"
        /\ now - openedAt >= 60000) =>
       circuitBreakerState' = "half-open"]_vars

\* C37 (as claimed): the breaker opens only after five failed operations
\* with no successful operation in between.
C37_OpensAfterFiveInARow ==
  [][(circuitBreakerState' = "open" /\ circuitBreakerState = "closed") =>
       failuresSinceSuccess' >= 5]_vars


\* C33: for every interleaving of concurrent pull_request deliveries the jobs
\* enqueued for the user stay within 3 per calendar day and 10 per calendar month.
C33_UsageLimitsHold ==
  /\ \A d \in Days : jobsEnqueued[d] <= USAGE_LIMITS_DAILY
  /\ TotalJobs <= USAGE_LIMITS_MONTHLY

\* a step in which a delivery is answered at once
AnsweredAtOnce(s) ==
  /\ today' = today
  /\ \A t \in Slots : Busy(t) => reqs'[t] = reqs[t]
  /\ reqs'[s].pc = "done"

\* C38: a webhook request whose signature does not match changes no Installation
\* or PullRequest record and enqueues no job, whatever its event.
C38_InvalidSignatureChangesNothing ==
  [][\A s \in Slots :
       (AnsweredAtOnce(s) /\ reqs'[s].signature # "valid")
         => UNCHANGED <<installations, pullRequests, jobsEnqueued>>]_vars

\* the same for pull_request deliveries alone
C38_PullRequestOnly ==
  [][\A s \in Slots :
       (AnsweredAtOnce(s) /\ reqs'[s].signature # "valid"
          /\ reqs'[s].event = "pull_request")
         => /\ UNCHANGED <<installations, pullRequests, jobsEnqueued>>
            /\ reqs'[s].status \in {401, 500}]_vars

Executing(p) ==
  \E w \in WorkerIds : workers[w].pc = "performPRReview" /\ workers[w].prNumber = p

\* C39: whenever the QueueTask record of a pull request has status 'completed' or
\* 'failed', no review job of that pull request is still executing performPRReview.
C39_SettledTaskHasNoRunningJob ==
  \A p \in PRNumbers : queueTasks[p] \in {"completed", "failed"} => ~Executing(p)

\* C39, second half: no job writes the task status of a pull request while another
\* job of that pull request is between its own two writes.
C39_NoOverwrite ==
  [][\A p \in PRNumbers :
       queueTasks'[p] # queueTasks[p]
         => Cardinality({w \in WorkerIds : workers[w].prNumber = p
                           /\ workers[w].pc \in {"performPRReview", "completed",
                                                 "failed"}}) <= 1]_vars

\* jobs of different pull requests do not touch each other's record
C39_OtherPullRequestsUntouched ==
  [][\A w \in WorkerIds, p \in PRNumbers :
       (workers'[w] # workers[w] /\ workers[w].prNumber # p /\ workers'[w].prNumber # p)
         => queueTasks'[p] = queueTasks[p]]_vars

====
